---- MODULE Spec2Model ----
(***************************************************************************)
(* Model of the family budget tracker in src/App.py: the workbook on disk, *)
(* the st.cache_data entry of _load_data, one script run of main() per     *)
(* page interaction, and the pure helpers the run is built from.           *)
(*                                                                         *)
(* Amounts are Python floats in the source.  They are modelled in fixed    *)
(* point, in tenths (305 is 30.5), so that the rounding of _format_amount  *)
(* and the separator handling of _parse_amount are visible.  A date is the *)
(* tuple <<year, month, day>>; a missing date is the empty tuple.  Cell    *)
(* texts are tuples of one-character strings.                              *)
(***************************************************************************)
EXTENDS Integers, Sequences, FiniteSets, TLC

VARIABLES
    file,         \* presupuesto.xlsx: the persisted sheets
    cache,        \* st.cache_data entry of _load_data: <<>> or <<dataset>>
    data,         \* the dataframes of the current / last script run of main()
    pc,           \* "idle": waiting for an interaction, "run": loaded, before the handler
    did_migrate,  \* the flag _migrate_mensuales_from_base returned in this run
    ui,           \* the widget that triggered the last handler and its selections
    boots,        \* how many times the server process has been restarted
    call,         \* a call of a pure function: the function and its arguments
    ret,          \* the value that call returned
    loop,         \* locals of the while loop of _month_range, stepped one iteration at a time
    db,           \* the committed tables of the PostgreSQL store of neon_data.py
    sess,         \* the dataset a user's session works on, from load_data
    tx            \* a save in progress: its statements so far, or its temporary workbook

vars == <<file, cache, data, pc, did_migrate, ui, boots, call, ret, loop, db, sess, tx>>
appVars == <<file, cache, data, pc, did_migrate, ui, boots>>
fnVars == <<call, ret, loop>>
dbVars == <<db, sess, tx>>

-----------------------------------------------------------------------------
(* Bounds of the model *)

MaxGastos == 1
MaxIngresos == 1
MaxPagos == 1
MaxRestarts == 1

-----------------------------------------------------------------------------
(* Generic sequence helpers *)

Range(s) == {s[i] : i \in DOMAIN s}

RECURSIVE SeqOfSet(_)
SeqOfSet(S) ==
    IF S = {} THEN <<>>
    ELSE LET x == CHOOSE y \in S : \A z \in S : y <= z
         IN <<x>> \o SeqOfSet(S \ {x})

RECURSIVE Flatten(_)
Flatten(ss) == IF ss = <<>> THEN <<>> ELSE Head(ss) \o Flatten(Tail(ss))

Max(S) == CHOOSE x \in S : \A y \in S : y <= x

-----------------------------------------------------------------------------
(* Dates *)

NoDate == <<>>

DateLT(a, b) ==
    \/ a[1] < b[1]
    \/ a[1] = b[1] /\ a[2] < b[2]
    \/ a[1] = b[1] /\ a[2] = b[2] /\ a[3] < b[3]

DateLE(a, b) == a = b \/ DateLT(a, b)

\* A stored value is a date <<y, m, d>>, a day number <<"day", n>>, an
\* unparsable text <<"?">> or missing <<>>.  pd.to_datetime of an integer is a
\* nanosecond offset from the epoch.
_parse_date(value) ==
    CASE Len(value) = 3 -> value
      [] Len(value) = 2 -> <<1970, 1, 1>>
      [] OTHER -> NoDate

IsLeap(y) == (y % 4 = 0 /\ y % 100 # 0) \/ y % 400 = 0

\* calendar.monthrange(year, month)[1]
LastDay(y, m) ==
    CASE m \in {1, 3, 5, 7, 8, 10, 12} -> 31
      [] m \in {4, 6, 9, 11} -> 30
      [] OTHER -> IF IsLeap(y) THEN 29 ELSE 28

Today == <<2024, 12, 5>>

_current_month == <<Today[1], Today[2]>>

\* year_options = range(current_year - 2, current_year + 3)
year_options == (Today[1] - 2) .. (Today[1] + 2)

-----------------------------------------------------------------------------
(* Amount texts *)

Digits == <<"0", "1", "2", "3", "4", "5", "6", "7", "8", "9">>
DigitSet == Range(Digits)
DigitVal(c) == (CHOOSE i \in 1..10 : Digits[i] = c) - 1

Abs(n) == IF n < 0 THEN -n ELSE n

\* round-half-even of a value in tenths to whole units, as format ".0f" rounds
RoundHalfEven(a) ==
    LET q == Abs(a) \div 10
        r == Abs(a) % 10
        u == IF r < 5 THEN q
             ELSE IF r > 5 THEN q + 1
             ELSE IF q % 2 = 0 THEN q ELSE q + 1
    IN IF a < 0 THEN -u ELSE u

RECURSIVE DigitsOf(_)
DigitsOf(n) == IF n < 10 THEN <<Digits[n + 1]>> ELSE DigitsOf(n \div 10) \o <<Digits[(n % 10) + 1]>>

\* groups of three digits from the right, joined by sep
RECURSIVE Grouped(_, _)
Grouped(ds, sep) ==
    IF Len(ds) <= 3 THEN ds
    ELSE Grouped(SubSeq(ds, 1, Len(ds) - 3), sep) \o <<sep>> \o SubSeq(ds, Len(ds) - 2, Len(ds))

\* f"{numeric:,.0f}".replace(",", ".")
_format_amount(value) ==
    LET u == RoundHalfEven(value)
        body == Grouped(DigitsOf(Abs(u)), ".")
    IN IF value < 0 THEN <<"-">> \o body ELSE body

RECURSIVE Strip(_)
Strip(t) ==
    IF t = <<>> THEN t
    ELSE IF Head(t) = " " THEN Strip(Tail(t))
    ELSE IF t[Len(t)] = " " THEN Strip(SubSeq(t, 1, Len(t) - 1))
    ELSE t

RECURSIVE DigitsValue(_)
DigitsValue(ds) == IF ds = <<>> THEN 0 ELSE DigitsValue(SubSeq(ds, 1, Len(ds) - 1)) * 10 + DigitVal(ds[Len(ds)])

\* float(text) for texts of sign, digits and at most one point; ok is FALSE
\* where float raises.  The value is kept to one decimal, the precision of the model.
ParseFloat(t) ==
    LET neg == t # <<>> /\ Head(t) = "-"
        body == IF t # <<>> /\ Head(t) \in {"-", "+"} THEN Tail(t) ELSE t
        points == {i \in DOMAIN body : body[i] = "."}
        p == IF points = {} THEN Len(body) + 1 ELSE CHOOSE i \in points : TRUE
        ip == SubSeq(body, 1, p - 1)
        fp == SubSeq(body, p + 1, Len(body))
        ok == /\ Cardinality(points) <= 1
              /\ \A i \in DOMAIN ip : ip[i] \in DigitSet
              /\ \A i \in DOMAIN fp : fp[i] \in DigitSet
              /\ Len(ip) + Len(fp) > 0
        mag == DigitsValue(ip) * 10 + (IF fp = <<>> THEN 0 ELSE DigitVal(fp[1]))
    IN [ok |-> ok, v |-> IF ~ok THEN 0 ELSE IF neg THEN -mag ELSE mag]

\* The cell texts of the editors: strip, drop the thousands points, read the
\* comma as the decimal point; 0.0 for an empty cell and where float raises.
_parse_amount(value) ==
    LET cleaned == Strip(value)
        nopoints == SelectSeq(cleaned, LAMBDA c : c # ".")
        swapped == [i \in DOMAIN nopoints |-> IF nopoints[i] = "," THEN "." ELSE nopoints[i]]
        f == ParseFloat(swapped)
    IN IF cleaned = <<>> THEN 0
       ELSE IF ~f.ok THEN 0 ELSE f.v

-----------------------------------------------------------------------------
(* Recurrence expander *)

\* the successor of the first day of a month, as the loop body computes it
NextMonth(current) ==
    IF current[2] = 12 THEN <<current[1] + 1, 1, 1>> ELSE <<current[1], current[2] + 1, 1>>

\* the loop stopping before the month of the end date
LoopCond_Strict(current, end_month) == DateLT(current, end_month)

\* line 300: the condition of the while loop
LoopCond(current, end_month) == DateLE(current, end_month)

RECURSIVE MonthLoop(_, _, _)
MonthLoop(current, end_month, months) ==
    IF LoopCond(current, end_month)
    THEN MonthLoop(NextMonth(current), end_month, Append(months, <<current[1], current[2]>>))
    ELSE months

\* _month_range without the exchange of the two dates
_month_range_NoSwap(start, end) ==
    IF start = NoDate \/ end = NoDate THEN <<>>
    ELSE MonthLoop(<<start[1], start[2], 1>>, <<end[1], end[2], 1>>, <<>>)

_month_range(start, end) ==
    IF start = NoDate \/ end = NoDate THEN <<>>
    ELSE LET s == IF DateLT(end, start) THEN end ELSE start
             e == IF DateLT(end, start) THEN start ELSE end
         IN MonthLoop(<<s[1], s[2], 1>>, <<e[1], e[2], 1>>, <<>>)

\* _months_for_row without the filter on the month of fecha_pago
_months_for_row_NoFilter(periodicidad, fecha_pago, fecha_inicio, fecha_termino) ==
    _month_range(_parse_date(fecha_inicio), _parse_date(fecha_termino))

_months_for_row(periodicidad, fecha_pago, fecha_inicio, fecha_termino) ==
    LET inicio == _parse_date(fecha_inicio)
        termino == _parse_date(fecha_termino)
        months == _month_range(inicio, termino)
        pago == _parse_date(fecha_pago)
    IN IF periodicidad = "Anual"
       THEN IF pago # NoDate
            THEN SelectSeq(months, LAMBDA ym : ym[2] = pago[2])
            ELSE <<>>
       ELSE months

\* _is_active_for_month with the true last day of the month as period end
_is_active_for_month_LastDay(fecha_inicio, fecha_termino, year, month) ==
    LET inicio == IF _parse_date(fecha_inicio) # NoDate THEN _parse_date(fecha_inicio)
                  ELSE <<year, month, 1>>
        termino == IF _parse_date(fecha_termino) # NoDate THEN _parse_date(fecha_termino)
                   ELSE <<year, month, LastDay(year, month)>>
    IN DateLE(inicio, <<year, month, LastDay(year, month)>>) /\ DateLE(<<year, month, 1>>, termino)

_is_active_for_month(fecha_inicio, fecha_termino, year, month) ==
    LET inicio == IF _parse_date(fecha_inicio) # NoDate THEN _parse_date(fecha_inicio)
                  ELSE <<year, month, 1>>
        termino == IF _parse_date(fecha_termino) # NoDate THEN _parse_date(fecha_termino)
                   ELSE <<year, month, 28>>
        period_start == <<year, month, 1>>
        period_end == <<year, month, 28>>
    IN DateLE(inicio, period_end) /\ DateLE(period_start, termino)

-----------------------------------------------------------------------------
(* Override store *)

\* the (id, year, month) keys of a monthly table
GastoKeys(df) == {<<df[i].gasto_id, df[i].year, df[i].month>> : i \in DOMAIN df}
IngresoKeys(df) == {<<df[i].ingreso_id, df[i].year, df[i].month>> : i \in DOMAIN df}

\* dict (gasto_id, month) -> amount of one year; iterating the rows in order, a
\* later row of the same key replaces the earlier one
_gastos_mensuales_map_for_year(gastos_mensuales_df, year) ==
    LET rows == {i \in DOMAIN gastos_mensuales_df : gastos_mensuales_df[i].year = year}
        keys == {<<gastos_mensuales_df[i].gasto_id, gastos_mensuales_df[i].month>> : i \in rows}
    IN [k \in keys |->
          gastos_mensuales_df[Max({i \in rows :
              <<gastos_mensuales_df[i].gasto_id, gastos_mensuales_df[i].month>> = k})].monto_presupuestado]

_ingresos_mensuales_map_for_year(ingresos_mensuales_df, year) ==
    LET rows == {i \in DOMAIN ingresos_mensuales_df : ingresos_mensuales_df[i].year = year}
        keys == {<<ingresos_mensuales_df[i].ingreso_id, ingresos_mensuales_df[i].month>> : i \in rows}
    IN [k \in keys |->
          ingresos_mensuales_df[Max({i \in rows :
              <<ingresos_mensuales_df[i].ingreso_id, ingresos_mensuales_df[i].month>> = k})].monto]

\* _presupuesto_for_month falling back to the base amount of the expense
_presupuesto_for_month_Base(row, year, month, gastos_mensuales_map) ==
    IF <<row.gasto_id, month>> \in DOMAIN gastos_mensuales_map
    THEN gastos_mensuales_map[<<row.gasto_id, month>>]
    ELSE row.monto_presupuestado

_presupuesto_for_month(row, year, month, gastos_mensuales_map) ==
    IF <<row.gasto_id, month>> \in DOMAIN gastos_mensuales_map
    THEN gastos_mensuales_map[<<row.gasto_id, month>>]
    ELSE 0

_monto_ingreso_for_month(row, year, month, ingresos_mensuales_map) ==
    IF <<row.ingreso_id, month>> \in DOMAIN ingresos_mensuales_map
    THEN ingresos_mensuales_map[<<row.ingreso_id, month>>]
    ELSE 0

\* the months of the item, one new row each with the base amount, concatenated
_append_gasto_mensual_entries(gastos_mensuales_df, gasto_row) ==
    LET months == _months_for_row(gasto_row.periodicidad, gasto_row.fecha_pago,
                                  gasto_row.fecha_inicio, gasto_row.fecha_termino)
        new_rows == [i \in DOMAIN months |->
                       [gasto_id |-> gasto_row.gasto_id, year |-> months[i][1],
                        month |-> months[i][2],
                        monto_presupuestado |-> gasto_row.monto_presupuestado]]
    IN IF months = <<>> THEN gastos_mensuales_df ELSE gastos_mensuales_df \o new_rows

_append_ingreso_mensual_entries(ingresos_mensuales_df, ingreso_row) ==
    LET months == _months_for_row(ingreso_row.periodicidad, ingreso_row.fecha_pago,
                                  ingreso_row.fecha_inicio, ingreso_row.fecha_termino)
        new_rows == [i \in DOMAIN months |->
                       [ingreso_id |-> ingreso_row.ingreso_id, year |-> months[i][1],
                        month |-> months[i][2], monto |-> ingreso_row.monto]]
    IN IF months = <<>> THEN ingresos_mensuales_df ELSE ingresos_mensuales_df \o new_rows

\* GastoCandidates seeding the rows with zero instead of the base amount
GastoCandidates_Zero(gastos_df) ==
    Flatten([g \in DOMAIN gastos_df |->
        LET row == gastos_df[g]
            months == _months_for_row(row.periodicidad, row.fecha_pago,
                                      row.fecha_inicio, row.fecha_termino)
        IN [i \in DOMAIN months |->
              [gasto_id |-> row.gasto_id, year |-> months[i][1], month |-> months[i][2],
               monto_presupuestado |-> 0]]])

\* the candidate rows of the two loops of the migration, in loop order
GastoCandidates(gastos_df) ==
    Flatten([g \in DOMAIN gastos_df |->
        LET row == gastos_df[g]
            months == _months_for_row(row.periodicidad, row.fecha_pago,
                                      row.fecha_inicio, row.fecha_termino)
        IN [i \in DOMAIN months |->
              [gasto_id |-> row.gasto_id, year |-> months[i][1], month |-> months[i][2],
               monto_presupuestado |-> row.monto_presupuestado]]])

IngresoCandidates(ingresos_df) ==
    Flatten([g \in DOMAIN ingresos_df |->
        LET row == ingresos_df[g]
            months == _months_for_row(row.periodicidad, row.fecha_pago,
                                      row.fecha_inicio, row.fecha_termino)
        IN [i \in DOMAIN months |->
              [ingreso_id |-> row.ingreso_id, year |-> months[i][1], month |-> months[i][2],
               monto |-> row.monto]]])

\* the loop without the test "if key in existing"
NewGastoRows_NoSkip(cands, existing) == cands

\* "if key in existing: continue", else append the row and add its key
RECURSIVE NewGastoRows(_, _)
NewGastoRows(cands, existing) ==
    IF cands = <<>> THEN <<>>
    ELSE LET r == Head(cands)
             key == <<r.gasto_id, r.year, r.month>>
         IN IF key \in existing
            THEN NewGastoRows(Tail(cands), existing)
            ELSE <<r>> \o NewGastoRows(Tail(cands), existing \cup {key})

RECURSIVE NewIngresoRows(_, _)
NewIngresoRows(cands, existing) ==
    IF cands = <<>> THEN <<>>
    ELSE LET r == Head(cands)
             key == <<r.ingreso_id, r.year, r.month>>
         IN IF key \in existing
            THEN NewIngresoRows(Tail(cands), existing)
            ELSE <<r>> \o NewIngresoRows(Tail(cands), existing \cup {key})

_migrate_mensuales_from_base(gastos_df, ingresos_df, gastos_mensuales_df, ingresos_mensuales_df) ==
    LET new_gastos_rows == NewGastoRows(GastoCandidates(gastos_df), GastoKeys(gastos_mensuales_df))
        new_ingresos_rows == NewIngresoRows(IngresoCandidates(ingresos_df),
                                            IngresoKeys(ingresos_mensuales_df))
    IN [gastos_mensuales |-> gastos_mensuales_df \o new_gastos_rows,
        ingresos_mensuales |-> ingresos_mensuales_df \o new_ingresos_rows,
        changed |-> new_gastos_rows # <<>> \/ new_ingresos_rows # <<>>]

-----------------------------------------------------------------------------
(* Payment reconciliation *)

\* the first payment of the item, in stored order, whose parsed date lies in
\* (year, month); <<>> for None
\* _get_pago_for_month returning the last payment of the period
_get_pago_for_month_Last(pagos_df, gasto_id, year, month) ==
    LET hits == {i \in DOMAIN pagos_df :
                    /\ pagos_df[i].gasto_id = gasto_id
                    /\ LET fecha == _parse_date(pagos_df[i].fecha_pago_real)
                       IN fecha # NoDate /\ fecha[1] = year /\ fecha[2] = month}
    IN IF hits = {} THEN <<>>
       ELSE <<pagos_df[CHOOSE i \in hits : \A j \in hits : i >= j]>>

_get_pago_for_month(pagos_df, gasto_id, year, month) ==
    LET hits == {i \in DOMAIN pagos_df :
                    /\ pagos_df[i].gasto_id = gasto_id
                    /\ LET fecha == _parse_date(pagos_df[i].fecha_pago_real)
                       IN fecha # NoDate /\ fecha[1] = year /\ fecha[2] = month}
    IN IF hits = {} THEN <<>>
       ELSE <<pagos_df[CHOOSE i \in hits : \A j \in hits : i <= j]>>

\* _paid_in_month comparing the month of the payment only
_paid_in_month_AnyYear(pagos_df, gasto_id, year, month) ==
    \E i \in DOMAIN pagos_df :
        /\ pagos_df[i].gasto_id = gasto_id
        /\ LET fecha == _parse_date(pagos_df[i].fecha_pago_real)
           IN fecha # NoDate /\ fecha[2] = month

_paid_in_month(pagos_df, gasto_id, year, month) ==
    \E i \in DOMAIN pagos_df :
        /\ pagos_df[i].gasto_id = gasto_id
        /\ LET fecha == _parse_date(pagos_df[i].fecha_pago_real)
           IN fecha # NoDate /\ fecha[1] = year /\ fecha[2] = month

\* _next_id over the id column of a table
_next_id(series) == IF series = <<>> THEN 1 ELSE Max(Range(series)) + 1

-----------------------------------------------------------------------------
(* Sorting by (categoria, nombre) *)

\* the strings of the model in Python's string order
Lexicon == <<"", "Automovil", "Hogar", "luz", "seguro", "sueldo">>
StrRank(s) == CHOOSE i \in DOMAIN Lexicon : Lexicon[i] = s

CatNameLE(a, b) ==
    \/ StrRank(a.categoria) < StrRank(b.categoria)
    \/ a.categoria = b.categoria /\ StrRank(a.nombre) <= StrRank(b.nombre)

\* stable insertion of x into the sorted sequence s, after its equals
RECURSIVE InsertSorted(_, _)
InsertSorted(s, x) ==
    IF s = <<>> THEN <<x>>
    ELSE IF CatNameLE(Head(s), x) THEN <<Head(s)>> \o InsertSorted(Tail(s), x)
    ELSE <<x>> \o s

RECURSIVE SortFrom(_, _)
SortFrom(df, acc) == IF df = <<>> THEN acc ELSE SortFrom(Tail(df), InsertSorted(acc, Head(df)))

\* df.sort_values([categoria, nombre], kind="stable")
_sort_by_categoria_nombre(df) == SortFrom(df, <<>>)

-----------------------------------------------------------------------------
(* The workbook and its load / save *)

EmptyData ==
    [gastos |-> <<>>, pagos |-> <<>>, ingresos |-> <<>>, cuenta |-> <<>>,
     gastos_mensuales |-> <<>>, ingresos_mensuales |-> <<>>, comentarios |-> <<>>]

Sheets(d, ajustes) ==
    [gastos |-> d.gastos, pagos |-> d.pagos, ingresos |-> d.ingresos, cuenta |-> d.cuenta,
     gastos_mensuales |-> d.gastos_mensuales, ingresos_mensuales |-> d.ingresos_mensuales,
     comentarios |-> d.comentarios, ajustes |-> ajustes]

\* the workbook _write_empty_data_file creates: no "ajustes" sheet
_write_empty_data_file == Sheets(EmptyData, <<>>)

\* the legacy rows whose key the monthly sheet lacks; existing_keys is not
\* extended inside the loop
LegacyToAdd(gastos_mensuales, legacy_ajustes) ==
    SelectSeq(legacy_ajustes,
              LAMBDA row : <<row.gasto_id, row.year, row.month>> \notin GastoKeys(gastos_mensuales))

_read_data_file(f) ==
    [gastos |-> f.gastos, pagos |-> f.pagos, ingresos |-> f.ingresos, cuenta |-> f.cuenta,
     gastos_mensuales |->
        IF f.ajustes # <<>>
        THEN f.gastos_mensuales \o LegacyToAdd(f.gastos_mensuales, f.ajustes)
        ELSE f.gastos_mensuales,
     ingresos_mensuales |-> f.ingresos_mensuales,
     comentarios |-> f.comentarios]

\* @st.cache_data: the value of the first call is returned to every later
\* call with the same path; nothing in the source clears the entry
_load_data(f, c) == IF c # <<>> THEN c[1] ELSE _read_data_file(f)

\* the seven sheets are written to a temporary workbook that replaces the file
_save_data(d) == Sheets(d, <<>>)

-----------------------------------------------------------------------------
(* Inputs of the forms and editors *)

GastoInputs ==
    { [nombre |-> "luz", categoria |-> "Hogar", monto_presupuestado |-> 305,
       periodicidad |-> "Mensual", fecha_pago |-> <<"day", 5>>,
       fecha_inicio |-> <<2024, 11, 15>>, fecha_termino |-> <<2025, 1, 31>>],
      [nombre |-> "seguro", categoria |-> "Automovil", monto_presupuestado |-> 15000,
       periodicidad |-> "Anual", fecha_pago |-> <<2024, 12, 20>>,
       fecha_inicio |-> <<2024, 11, 15>>, fecha_termino |-> <<2025, 1, 31>>] }

IngresoInputs ==
    { [nombre |-> "sueldo", monto |-> 500, periodicidad |-> "Mensual",
       fecha_pago |-> <<"day", 1>>,
       fecha_inicio |-> <<2024, 12, 1>>, fecha_termino |-> <<2025, 1, 31>>] }

\* the years and months the selectors are set to, among year_options and 1..12
SelYears == {y \in year_options : y \in {2024, 2025}}
EditMonths == {12}
EditTexts == { <<"1", ".", "2", "0", "0">>, <<"1", "2", ",", "5">>, <<>>, <<"a">> }
IngresoEditTexts == { <<"7", "0">> }
NoEdit == [id |-> 0, month |-> 0, text |-> <<>>]

SaldoInputs == {10000}
ComentarioInputs == {"luz"}

\* what the user does to a row of the payments editor: the amount text and
\* the date are left as shown or overwritten; the date may be cleared
PagoEdits ==
    { [set_monto |-> FALSE, monto_real |-> <<>>, set_fecha |-> FALSE, fecha |-> NoDate],
      [set_monto |-> TRUE, monto_real |-> <<"4", "5">>, set_fecha |-> TRUE, fecha |-> <<2025, 1, 31>>],
      [set_monto |-> FALSE, monto_real |-> <<>>, set_fecha |-> TRUE, fecha |-> NoDate] }

\* workbooks found on disk at the first run: a fresh one, and those written by
\* the version that kept the adjustments in the "ajustes" sheet and had no
\* monthly sheets
LegacyFile ==
    [gastos |-> << [gasto_id |-> 1, nombre |-> "luz", categoria |-> "Hogar",
                    monto_presupuestado |-> 305, periodicidad |-> "Mensual",
                    fecha_pago |-> <<"day", 5>>,
                    fecha_inicio |-> <<2024, 11, 15>>, fecha_termino |-> <<2025, 1, 31>>] >>,
     pagos |-> <<>>,
     ingresos |-> << [ingreso_id |-> 1, nombre |-> "sueldo", monto |-> 500,
                      periodicidad |-> "Mensual", fecha_pago |-> <<"day", 1>>,
                      fecha_inicio |-> <<2024, 12, 1>>, fecha_termino |-> <<2025, 1, 31>>] >>,
     cuenta |-> <<>>,
     gastos_mensuales |-> <<>>,
     ingresos_mensuales |-> <<>>,
     comentarios |-> <<>>,
     ajustes |-> << [gasto_id |-> 1, year |-> 2024, month |-> 12, monto_presupuestado |-> 0] >>]

InitialFiles ==
    {_write_empty_data_file, LegacyFile, [LegacyFile EXCEPT !.ajustes = <<>>]}

-----------------------------------------------------------------------------
(* One script run of main(): load, migrate, then the handler of the widget *)

NoUi == [op |-> "none", year |-> 0, month |-> 0, editor |-> <<>>]

\* lines 825-842: the (cached) load, the migration, and its save
LoadAndMigrate ==
    /\ pc = "idle"
    /\ LET loaded == _load_data(file, cache)
           mig == _migrate_mensuales_from_base(loaded.gastos, loaded.ingresos,
                                               loaded.gastos_mensuales, loaded.ingresos_mensuales)
           migrated == [loaded EXCEPT !.gastos_mensuales = mig.gastos_mensuales,
                                      !.ingresos_mensuales = mig.ingresos_mensuales]
       IN /\ cache' = <<loaded>>
          /\ data' = migrated
          /\ did_migrate' = mig.changed
          /\ file' = IF mig.changed THEN _save_data(migrated) ELSE file
    /\ pc' = "run"
    /\ ui' = NoUi
    /\ UNCHANGED boots
    /\ UNCHANGED <<fnVars, dbVars>>

\* the server process is restarted: the cache entry is gone
RestartServer ==
    /\ pc = "idle"
    /\ cache # <<>>
    /\ boots < MaxRestarts
    /\ cache' = <<>>
    /\ boots' = boots + 1
    /\ UNCHANGED <<file, data, pc, did_migrate, ui>>
    /\ UNCHANGED <<fnVars, dbVars>>

\* the run renders the page and no button was pressed
VerPagina ==
    /\ pc = "run"
    /\ pc' = "idle"
    /\ UNCHANGED <<file, cache, data, did_migrate, ui, boots>>
    /\ UNCHANGED <<fnVars, dbVars>>

\* a handler's end: the dataframes it leaves, saved to the workbook
Saved(d, op, year, month, editor) ==
    /\ data' = d
    /\ file' = _save_data(d)
    /\ pc' = "idle"
    /\ ui' = [op |-> op, year |-> year, month |-> month, editor |-> editor]
    /\ UNCHANGED <<cache, did_migrate, boots>>
    /\ UNCHANGED <<fnVars, dbVars>>

IdColumn(df, col) == [i \in DOMAIN df |-> df[i][col]]

\* lines 880-889: the row of the registered expense
GastoRow(gasto_id, form) ==
    [gasto_id |-> gasto_id, nombre |-> form.nombre, categoria |-> form.categoria,
     monto_presupuestado |-> form.monto_presupuestado,
     periodicidad |-> form.periodicidad, fecha_pago |-> form.fecha_pago,
     fecha_inicio |-> form.fecha_inicio, fecha_termino |-> form.fecha_termino]

\* lines 927-935: the row of the registered income
IngresoRow(ingreso_id, form) ==
    [ingreso_id |-> ingreso_id, nombre |-> form.nombre, monto |-> form.monto,
     periodicidad |-> form.periodicidad, fecha_pago |-> form.fecha_pago,
     fecha_inicio |-> form.fecha_inicio, fecha_termino |-> form.fecha_termino]

\* lines 877-902
RegistrarGasto ==
    /\ pc = "run"
    /\ Len(data.gastos) < MaxGastos
    /\ \E form \in GastoInputs :
         LET gasto_id == _next_id(IdColumn(data.gastos, "gasto_id"))
             new_row == GastoRow(gasto_id, form)
         IN Saved([data EXCEPT !.gastos = Append(@, new_row),
                               !.gastos_mensuales = _append_gasto_mensual_entries(@, new_row)],
                  "registrar_gasto", 0, 0, <<>>)

\* lines 924-948
RegistrarIngreso ==
    /\ pc = "run"
    /\ Len(data.ingresos) < MaxIngresos
    /\ \E form \in IngresoInputs :
         LET ingreso_id == _next_id(IdColumn(data.ingresos, "ingreso_id"))
             new_ingreso == IngresoRow(ingreso_id, form)
         IN Saved([data EXCEPT !.ingresos = Append(@, new_ingreso),
                               !.ingresos_mensuales = _append_ingreso_mensual_entries(@, new_ingreso)],
                  "registrar_ingreso", 0, 0, <<>>)

\* lines 1003-1027: the marked rows of the year table, with their overrides and payments
\* the deletion without the filter of the payments
EliminarGastos_KeepsPagos(d, delete_ids) ==
    [d EXCEPT
        !.gastos = SelectSeq(@, LAMBDA r : r.gasto_id \notin delete_ids),
        !.gastos_mensuales = SelectSeq(@, LAMBDA r : r.gasto_id \notin delete_ids)]

\* lines 1016-1024: the three tables without the rows of the deleted ids
EliminarGastos(d, delete_ids) ==
    [d EXCEPT
        !.gastos = SelectSeq(@, LAMBDA r : r.gasto_id \notin delete_ids),
        !.pagos = SelectSeq(@, LAMBDA r : r.gasto_id \notin delete_ids),
        !.gastos_mensuales = SelectSeq(@, LAMBDA r : r.gasto_id \notin delete_ids)]

EliminarSeleccionados ==
    /\ pc = "run"
    /\ \E delete_ids \in SUBSET {data.gastos[i].gasto_id : i \in DOMAIN data.gastos} :
         /\ delete_ids # {}
         /\ Saved(EliminarGastos(data, delete_ids), "eliminar", 0, 0, <<>>)

\* the texts of one row of the year editor: the formatted amounts of the
\* twelve months, with the user's edit of one cell applied
EditedCells(shown, id, edit) ==
    [month \in 1..12 |->
        IF edit.id = id /\ edit.month = month THEN edit.text ELSE shown[month]]

\* _build_gastos_por_mes_table: one row per expense, sorted by (Categoria, Gasto)
_build_gastos_por_mes_table(gastos_df, year, gastos_mensuales_df) ==
    LET gastos_mensuales_map == _gastos_mensuales_map_for_year(gastos_mensuales_df, year)
        rows == [i \in DOMAIN gastos_df |->
                   [gasto_id |-> gastos_df[i].gasto_id, nombre |-> gastos_df[i].nombre,
                    categoria |-> gastos_df[i].categoria,
                    meses |-> [month \in 1..12 |->
                                 _presupuesto_for_month(gastos_df[i], year, month,
                                                        gastos_mensuales_map)]]]
    IN _sort_by_categoria_nombre(rows)

\* _build_ingresos_por_mes_table: one row per income, in stored order
_build_ingresos_por_mes_table(ingresos_df, year, ingresos_mensuales_df) ==
    LET ingresos_mensuales_map == _ingresos_mensuales_map_for_year(ingresos_mensuales_df, year)
    IN [i \in DOMAIN ingresos_df |->
          [ingreso_id |-> ingresos_df[i].ingreso_id,
           meses |-> [month \in 1..12 |->
                        _monto_ingreso_for_month(ingresos_df[i], year, month,
                                                 ingresos_mensuales_map)]]]

\* _format_amount_columns and st.data_editor: the rows of the year table as
\* texts, with the user's edit applied
GastosEditor(table, edit) ==
    [t \in DOMAIN table |->
        [id |-> table[t].gasto_id,
         cells |-> EditedCells([month \in 1..12 |-> _format_amount(table[t].meses[month])],
                               table[t].gasto_id, edit)]]

IngresosEditor(table, edit) ==
    [t \in DOMAIN table |->
        [id |-> table[t].ingreso_id,
         cells |-> EditedCells([month \in 1..12 |-> _format_amount(table[t].meses[month])],
                               table[t].ingreso_id, edit)]]

\* GastoYearRows writing a row only for the months with an amount
GastoYearRows_NonZero(editor, selected_year) ==
    SelectSeq(Flatten([t \in DOMAIN editor |->
                  [month \in 1..12 |->
                      [gasto_id |-> editor[t].id, year |-> selected_year, month |-> month,
                       monto_presupuestado |-> _parse_amount(editor[t].cells[month])]]]),
              LAMBDA r : r.monto_presupuestado # 0)

\* lines 1029-1041: twelve rows per row of the editor, parsed from its texts
GastoYearRows(editor, selected_year) ==
    Flatten([t \in DOMAIN editor |->
        [month \in 1..12 |->
            [gasto_id |-> editor[t].id, year |-> selected_year, month |-> month,
             monto_presupuestado |-> _parse_amount(editor[t].cells[month])]]])

\* lines 1097-1109
IngresoYearRows(editor, selected_year) ==
    Flatten([t \in DOMAIN editor |->
        [month \in 1..12 |->
            [ingreso_id |-> editor[t].id, year |-> selected_year, month |-> month,
             monto |-> _parse_amount(editor[t].cells[month])]]])

\* ReplaceYear writing the new rows only: the other years are dropped
ReplaceYear_OnlyNew(mensuales_df, selected_year, new_rows) == new_rows

\* ReplaceYear without the filter on the year: the old rows of the year stay
ReplaceYear_KeepsYear(mensuales_df, selected_year, new_rows) == mensuales_df \o new_rows

\* lines 1043-1051: the rows of the other years, then the new rows
ReplaceYear(mensuales_df, selected_year, new_rows) ==
    SelectSeq(mensuales_df, LAMBDA r : r.year # selected_year) \o new_rows

EditsOf(ids, texts) ==
    {NoEdit} \cup {[id |-> id, month |-> m, text |-> t] : id \in ids, m \in EditMonths, t \in texts}

\* lines 1028-1066: "Guardar montos del anio"
GuardarMontosAnio ==
    /\ pc = "run"
    /\ data.gastos # <<>>
    /\ \E selected_year \in SelYears :
       \E edit \in EditsOf({data.gastos[i].gasto_id : i \in DOMAIN data.gastos}, EditTexts) :
         LET table == _build_gastos_por_mes_table(data.gastos, selected_year,
                                                  data.gastos_mensuales)
             editor == GastosEditor(table, edit)
             new_rows == GastoYearRows(editor, selected_year)
         IN Saved([data EXCEPT !.gastos_mensuales = ReplaceYear(@, selected_year, new_rows)],
                  "guardar_montos", selected_year, 0, editor)

\* lines 1096-1134: "Guardar montos de ingresos del anio"
GuardarMontosIngresosAnio ==
    /\ pc = "run"
    /\ data.ingresos # <<>>
    /\ \E selected_year \in SelYears :
       \E edit \in EditsOf({data.ingresos[i].ingreso_id : i \in DOMAIN data.ingresos},
                             IngresoEditTexts) :
         LET table == _build_ingresos_por_mes_table(data.ingresos, selected_year,
                                                    data.ingresos_mensuales)
             editor == IngresosEditor(table, edit)
             new_rows == IngresoYearRows(editor, selected_year)
         IN Saved([data EXCEPT !.ingresos_mensuales = ReplaceYear(@, selected_year, new_rows)],
                  "guardar_montos_ingresos", selected_year, 0, editor)

\* lines 1157-1212: the expenses budgeted in the month that have no payment
\* in it, sorted by (categoria, nombre), with the month's amount
UnpaidRows(d, year, month) ==
    LET gastos_mensuales_map == _gastos_mensuales_map_for_year(d.gastos_mensuales, year)
        gastos_mes == SelectSeq(d.gastos,
                         LAMBDA row : _presupuesto_for_month(row, year, month,
                                                             gastos_mensuales_map) # 0)
        unpaid == SelectSeq(gastos_mes,
                     LAMBDA row : _get_pago_for_month(d.pagos, row.gasto_id, year, month) = <<>>)
    IN _sort_by_categoria_nombre(
          [i \in DOMAIN unpaid |->
             [gasto_id |-> unpaid[i].gasto_id, nombre |-> unpaid[i].nombre,
              categoria |-> unpaid[i].categoria,
              monto_real |-> _format_amount(_presupuesto_for_month(unpaid[i], year, month,
                                                                   gastos_mensuales_map)),
              fecha_pago_real |-> <<year, month, 1>>]])

\* the normalisation without the limit of the last day of the month
NormalizeFecha_NoClamp(fecha_pago_real, year, month) ==
    LET parsed_fecha == _parse_date(fecha_pago_real)
    IN IF parsed_fecha = NoDate THEN <<year, month, 1>>
       ELSE <<year, month, parsed_fecha[3]>>

\* lines 1278-1302: the stored date is always in the selected period
NormalizeFecha(fecha_pago_real, year, month) ==
    LET parsed_fecha == _parse_date(fecha_pago_real)
    IN IF parsed_fecha = NoDate THEN <<year, month, 1>>
       ELSE IF parsed_fecha[1] # year \/ parsed_fecha[2] # month
            THEN LET last_day == LastDay(year, month)
                     adjusted_day == IF parsed_fecha[3] < last_day THEN parsed_fecha[3]
                                     ELSE last_day
                 IN <<year, month, adjusted_day>>
            ELSE parsed_fecha

\* lines 1262-1312: the loop over the marked rows; acc holds new_rows and skipped
RECURSIVE RegisterLoop(_, _, _, _, _, _)
RegisterLoop(to_register, pagos_df, year, month, next_id, acc) ==
    IF to_register = <<>> THEN acc
    ELSE LET row == Head(to_register)
         IN IF _get_pago_for_month(pagos_df, row.gasto_id, year, month) # <<>>
            THEN RegisterLoop(Tail(to_register), pagos_df, year, month, next_id,
                              [acc EXCEPT !.skipped = Append(@, row.nombre)])
            ELSE RegisterLoop(Tail(to_register), pagos_df, year, month, next_id + 1,
                              [acc EXCEPT !.new_rows = Append(@,
                                  [pago_id |-> next_id, gasto_id |-> row.gasto_id,
                                   monto_real |-> _parse_amount(row.monto_real),
                                   fecha_pago_real |-> NormalizeFecha(row.fecha_pago_real,
                                                                      year, month),
                                   estado |-> "Pagado"])])

\* the rows of the editor with the pagar box ticked, carrying the user's edits
MarkedRows(unpaid, edits) ==
    LET marked == SelectSeq(unpaid, LAMBDA row : row.gasto_id \in DOMAIN edits)
    IN [i \in DOMAIN marked |->
          LET e == edits[marked[i].gasto_id]
          IN [marked[i] EXCEPT
                !.monto_real = IF e.set_monto THEN e.monto_real ELSE @,
                !.fecha_pago_real = IF e.set_fecha THEN e.fecha ELSE @]]

\* lines 1257-1326: "Guardar pagos del mes"
GuardarPagos ==
    /\ pc = "run"
    /\ \E year \in SelYears, month \in 1..12 :
         LET unpaid == UnpaidRows(data, year, month)
         IN /\ unpaid # <<>>
            /\ \E ids \in SUBSET {unpaid[i].gasto_id : i \in DOMAIN unpaid} :
               /\ ids # {}
               /\ Len(data.pagos) + Cardinality(ids) <= MaxPagos
               /\ \E edits \in [ids -> PagoEdits] :
                    LET to_register == MarkedRows(unpaid, edits)
                        res == RegisterLoop(to_register, data.pagos, year, month,
                                            _next_id(IdColumn(data.pagos, "pago_id")),
                                            [new_rows |-> <<>>, skipped |-> <<>>])
                    IN IF res.new_rows # <<>>
                       THEN Saved([data EXCEPT !.pagos = @ \o res.new_rows],
                                  "guardar_pagos", year, month, to_register)
                       ELSE /\ pc' = "idle"
                            /\ ui' = [op |-> "guardar_pagos", year |-> year, month |-> month,
                                      editor |-> to_register]
                            /\ UNCHANGED <<file, cache, data, did_migrate, boots>>
                            /\ UNCHANGED <<fnVars, dbVars>>

\* lines 1505-1511
GuardarComentario ==
    /\ pc = "run"
    /\ \E comentario_input \in ComentarioInputs :
         Saved([data EXCEPT !.comentarios = <<comentario_input>>], "guardar_comentario", 0, 0, <<>>)

\* lines 1522-1526
GuardarSaldo ==
    /\ pc = "run"
    /\ \E saldo_input \in SaldoInputs :
         Saved([data EXCEPT !.cuenta = <<saldo_input>>], "guardar_saldo", 0, 0, <<>>)

-----------------------------------------------------------------------------
(* The figures of the pages Resumen and Balance *)

RECURSIVE SumSeq(_)
SumSeq(amounts) == IF amounts = <<>> THEN 0 ELSE Head(amounts) + SumSeq(Tail(amounts))

\* lines 1359-1370
total_gastos_presupuestados(d, year, month) ==
    LET gastos_mensuales_map == _gastos_mensuales_map_for_year(d.gastos_mensuales, year)
    IN SumSeq([i \in DOMAIN d.gastos |->
                 _presupuesto_for_month(d.gastos[i], year, month, gastos_mensuales_map)])

\* lines 1371-1379
total_gastos_reales(pagos_df, year, month) ==
    SumSeq([i \in DOMAIN pagos_df |->
              LET fecha_pago == _parse_date(pagos_df[i].fecha_pago_real)
              IN IF fecha_pago = NoDate THEN 0
                 ELSE IF fecha_pago[1] # year \/ fecha_pago[2] # month THEN 0
                 ELSE pagos_df[i].monto_real])

\* the difference without the floor at zero
total_pendiente_Signed(presupuestados, reales) == presupuestados - reales

\* line 1381
total_pendiente(presupuestados, reales) ==
    IF presupuestados - reales > 0 THEN presupuestados - reales ELSE 0

\* the expenses of the month counted only while they have no payment in it
total_gastos_mes_Unpaid(d, year, month_idx) ==
    LET gastos_mensuales_map == _gastos_mensuales_map_for_year(d.gastos_mensuales, year)
    IN SumSeq([i \in DOMAIN d.gastos |->
                 IF _paid_in_month(d.pagos, d.gastos[i].gasto_id, year, month_idx) THEN 0
                 ELSE _presupuesto_for_month(d.gastos[i], year, month_idx,
                                             gastos_mensuales_map)])

\* lines 1538-1545, 1576-1583
total_gastos_mes(d, year, month_idx) ==
    LET gastos_mensuales_map == _gastos_mensuales_map_for_year(d.gastos_mensuales, year)
    IN SumSeq([i \in DOMAIN d.gastos |->
                 _presupuesto_for_month(d.gastos[i], year, month_idx, gastos_mensuales_map)])

\* lines 1546-1553, 1584-1591
total_ingresos_mes(d, year, month_idx) ==
    LET ingresos_mensuales_map == _ingresos_mensuales_map_for_year(d.ingresos_mensuales, year)
    IN SumSeq([i \in DOMAIN d.ingresos |->
                 _monto_ingreso_for_month(d.ingresos[i], year, month_idx,
                                          ingresos_mensuales_map)])

\* the sum over the months after the current one
balance_restante_AfterMonth(d, year, month) ==
    SumSeq([k \in 1..(12 - month) |->
              total_ingresos_mes(d, year, month + k) - total_gastos_mes(d, year, month + k)])

\* lines 1536-1554: for month_idx in range(month, 13)
balance_restante(d, year, month) ==
    SumSeq([k \in 1..(13 - month) |->
              total_ingresos_mes(d, year, month + k - 1)
              - total_gastos_mes(d, year, month + k - 1)])

\* line 1556
saldo_proyectado(d, saldo_input, year, month) == saldo_input + balance_restante(d, year, month)

\* lines 1566-1592: for month_idx in range(1, 13)
balance_next_year(d, next_year) ==
    SumSeq([month_idx \in 1..12 |->
              total_ingresos_mes(d, next_year, month_idx)
              - total_gastos_mes(d, next_year, month_idx)])

\* the pending expenses in the order of the expenses table
gastos_pendientes_Unsorted(d, year, month) ==
    LET gastos_mensuales_map == _gastos_mensuales_map_for_year(d.gastos_mensuales, year)
        pending == SelectSeq(d.gastos, LAMBDA row :
                      /\ _presupuesto_for_month(row, year, month, gastos_mensuales_map) # 0
                      /\ ~_paid_in_month(d.pagos, row.gasto_id, year, month))
    IN [i \in DOMAIN pending |->
          [pending[i] EXCEPT !.monto_presupuestado =
              _presupuesto_for_month(pending[i], year, month, gastos_mensuales_map)]]

\* lines 1601-1614: gastos_pendientes and pendientes_df
gastos_pendientes(d, year, month) ==
    LET gastos_mensuales_map == _gastos_mensuales_map_for_year(d.gastos_mensuales, year)
        pending == SelectSeq(d.gastos, LAMBDA row :
                      /\ _presupuesto_for_month(row, year, month, gastos_mensuales_map) # 0
                      /\ ~_paid_in_month(d.pagos, row.gasto_id, year, month))
    IN _sort_by_categoria_nombre(
          [i \in DOMAIN pending |->
             [pending[i] EXCEPT !.monto_presupuestado =
                 _presupuesto_for_month(pending[i], year, month, gastos_mensuales_map)]])

-----------------------------------------------------------------------------
(* The application *)

NoCall == [fn |-> "none"]

\* the store without rows, no session, no save in progress
DbEmpty ==
    [gastos |-> <<>>, pagos |-> <<>>, ingresos |-> <<>>, cuenta |-> <<>>,
     gastos_mensuales |-> <<>>, ingresos_mensuales |-> <<>>, comentarios |-> <<>>]
NoSess == [uid |-> 0, d |-> EmptyData]
NoTx ==
    [pc |-> "idle", kind |-> "none", uid |-> 0, d |-> EmptyData, work |-> DbEmpty,
     error |-> "", roundtrip |-> FALSE]

\* what the last call returned: a list of months or a table
NoRet == [months |-> <<>>, df |-> <<>>, flag |-> FALSE, nums |-> <<>>]
NoLoop ==
    [pc |-> "off", start |-> NoDate, end |-> NoDate, current |-> NoDate,
     end_month |-> NoDate, months |-> <<>>]

Init ==
    /\ file \in InitialFiles
    /\ cache = <<>>
    /\ data = EmptyData
    /\ pc = "idle"
    /\ did_migrate = FALSE
    /\ ui = NoUi
    /\ boots = 0
    /\ call = NoCall
    /\ ret = NoRet
    /\ loop = NoLoop
    /\ db = DbEmpty
    /\ sess = NoSess
    /\ tx = NoTx

Next ==
    \/ LoadAndMigrate
    \/ RestartServer
    \/ VerPagina
    \/ RegistrarGasto
    \/ RegistrarIngreso
    \/ EliminarSeleccionados
    \/ GuardarMontosAnio
    \/ GuardarMontosIngresosAnio
    \/ GuardarPagos
    \/ GuardarComentario
    \/ GuardarSaldo

Spec == Init /\ [][Next]_vars

-----------------------------------------------------------------------------
(* The functions one call at a time: a call of a pure function on arguments
   drawn from small sets, and the loop of _month_range statement by statement *)

FnDates ==
    {<<2024, 11, 15>>, <<2024, 12, 1>>, <<2025, 1, 31>>, <<2025, 12, 31>>,
     <<2026, 2, 1>>, <<2024, 11, 30>>, NoDate, <<"?">>}

FnFechasPago == {<<"day", 5>>, <<2024, 12, 20>>, NoDate}

\* no call in progress
FnReady == call = NoCall /\ loop.pc = "off"

\* the call has returned and its result was used: the next call can be made
FnReturn ==
    /\ loop.pc \in {"off", "done"}
    /\ call # NoCall \/ loop.pc = "done"
    /\ call' = NoCall
    /\ ret' = NoRet
    /\ loop' = NoLoop
    /\ UNCHANGED <<appVars, dbVars>>

CallMonthsForRow ==
    /\ FnReady
    /\ \E periodicidad \in {"Mensual", "Anual"}, fecha_pago \in FnFechasPago,
          fecha_inicio \in FnDates, fecha_termino \in FnDates :
         /\ call' = [fn |-> "_months_for_row", periodicidad |-> periodicidad,
                     fecha_pago |-> fecha_pago, fecha_inicio |-> fecha_inicio,
                     fecha_termino |-> fecha_termino]
         /\ ret' = [NoRet EXCEPT !.months = _months_for_row(periodicidad, fecha_pago,
                                                            fecha_inicio, fecha_termino)]
    /\ loop' = NoLoop
    /\ UNCHANGED <<appVars, dbVars>>

\* monthly tables a row is appended to: empty, holding another item's row,
\* holding a row of the same item, holding a row outside the item's window
FnGastoTables ==
    {<<>>,
     <<[gasto_id |-> 2, year |-> 2024, month |-> 12, monto_presupuestado |-> 70]>>,
     <<[gasto_id |-> 1, year |-> 2024, month |-> 12, monto_presupuestado |-> 0]>>,
     <<[gasto_id |-> 1, year |-> 2023, month |-> 5, monto_presupuestado |-> 90]>>}

FnIngresoTables ==
    {<<>>,
     <<[ingreso_id |-> 1, year |-> 2025, month |-> 1, monto |-> 0]>>,
     <<[ingreso_id |-> 2, year |-> 2025, month |-> 1, monto |-> 40]>>}

CallAppendGasto ==
    /\ FnReady
    /\ \E df \in FnGastoTables, input \in GastoInputs :
         LET gasto_row == GastoRow(1, input)
         IN /\ call' = [fn |-> "_append_gasto_mensual_entries", df |-> df, row |-> gasto_row]
            /\ ret' = [NoRet EXCEPT !.df = _append_gasto_mensual_entries(df, gasto_row)]
    /\ loop' = NoLoop
    /\ UNCHANGED <<appVars, dbVars>>

CallAppendIngreso ==
    /\ FnReady
    /\ \E df \in FnIngresoTables, input \in IngresoInputs :
         LET ingreso_row == IngresoRow(1, input)
         IN /\ call' = [fn |-> "_append_ingreso_mensual_entries", df |-> df, row |-> ingreso_row]
            /\ ret' = [NoRet EXCEPT !.df = _append_ingreso_mensual_entries(df, ingreso_row)]
    /\ loop' = NoLoop
    /\ UNCHANGED <<appVars, dbVars>>

\* payment tables of up to two rows, with dates of two months, a missing date
\* and a text that is no date
FnPagoFechas == {<<2024, 12, 5>>, <<2024, 12, 20>>, <<2025, 1, 31>>, NoDate, <<"?">>}
FnPagoRow(pago_id, gasto_id, fecha) ==
    [pago_id |-> pago_id, gasto_id |-> gasto_id, monto_real |-> 100 * pago_id,
     fecha_pago_real |-> fecha, estado |-> "Pagado"]
FnPagosOfLen(n) ==
    {[i \in 1..n |-> FnPagoRow(i, g[i], f[i])] : g \in [1..n -> {1, 2}], f \in [1..n -> FnPagoFechas]}
FnPagosTables == FnPagosOfLen(0) \cup FnPagosOfLen(1) \cup FnPagosOfLen(2)
FnPagoPeriods == {<<2024, 12>>, <<2025, 1>>}

\* one call of _paid_in_month and of _get_pago_for_month with the same arguments
CallPagoForMonth ==
    /\ FnReady
    /\ \E pagos_df \in FnPagosTables, gasto_id \in {1, 2}, period \in FnPagoPeriods :
         /\ call' = [fn |-> "_get_pago_for_month", df |-> pagos_df, gasto_id |-> gasto_id,
                     year |-> period[1], month |-> period[2]]
         /\ ret' = [NoRet EXCEPT
                      !.flag = _paid_in_month(pagos_df, gasto_id, period[1], period[2]),
                      !.df = _get_pago_for_month(pagos_df, gasto_id, period[1], period[2])]
    /\ loop' = NoLoop
    /\ UNCHANGED <<appVars, dbVars>>

\* datasets for the figures: the registered items with their monthly rows
FnLuz == CHOOSE form \in GastoInputs : form.periodicidad = "Mensual"
FnSeguro == CHOOSE form \in GastoInputs : form.periodicidad = "Anual"
FnSueldo == CHOOSE form \in IngresoInputs : form.periodicidad = "Mensual"

FnGastoMonths(gasto_id, year, from, to, amount) ==
    [k \in 1..(to - from + 1) |->
        [gasto_id |-> gasto_id, year |-> year, month |-> from + k - 1,
         monto_presupuestado |-> amount]]

FnIngresoMonths(ingreso_id, year, from, to, amount) ==
    [k \in 1..(to - from + 1) |->
        [ingreso_id |-> ingreso_id, year |-> year, month |-> from + k - 1, monto |-> amount]]

\* one expense of 30 and one income of 50 in each of the months 6..12 of 2024
FnDataJuneToDecember ==
    [EmptyData EXCEPT
        !.gastos = <<GastoRow(1, FnLuz)>>,
        !.ingresos = <<IngresoRow(1, FnSueldo)>>,
        !.gastos_mensuales = FnGastoMonths(1, 2024, 6, 12, 300),
        !.ingresos_mensuales = FnIngresoMonths(1, 2024, 6, 12, 500)]

\* two expenses and one income with rows in 2024 and 2025
FnDataTwoYears ==
    [EmptyData EXCEPT
        !.gastos = <<GastoRow(1, FnLuz), GastoRow(2, FnSeguro)>>,
        !.ingresos = <<IngresoRow(1, FnSueldo)>>,
        !.gastos_mensuales = FnGastoMonths(1, 2024, 10, 11, 305)
                             \o FnGastoMonths(2, 2024, 12, 12, 70)
                             \o FnGastoMonths(1, 2025, 1, 1, 305),
        !.ingresos_mensuales = FnIngresoMonths(1, 2024, 12, 12, 500)
                               \o FnIngresoMonths(1, 2025, 1, 1, 500)]

FnItemData == {EmptyData, FnDataJuneToDecember, FnDataTwoYears}

\* the payment tables of the expenses of the dataset
FnPagosFor(d) ==
    {pagos_df \in FnPagosTables :
        \A i \in DOMAIN pagos_df :
            \E j \in DOMAIN d.gastos : d.gastos[j].gasto_id = pagos_df[i].gasto_id}

FnResumenPeriods == {<<2024, 6>>, <<2024, 12>>, <<2025, 1>>}

\* lines 1359-1381: the three figures of "Resumen del mes"
CallResumen ==
    /\ FnReady
    /\ \E items \in FnItemData, period \in FnResumenPeriods :
         \E pagos_df \in FnPagosFor(items) :
            LET d == [items EXCEPT !.pagos = pagos_df]
                presupuestados == total_gastos_presupuestados(d, period[1], period[2])
                reales == total_gastos_reales(d.pagos, period[1], period[2])
            IN /\ call' = [fn |-> "resumen", d |-> d, year |-> period[1], month |-> period[2]]
               /\ ret' = [NoRet EXCEPT !.nums = <<presupuestados, reales,
                                                  total_pendiente(presupuestados, reales)>>]
    /\ loop' = NoLoop
    /\ UNCHANGED <<appVars, dbVars>>

\* the day Balance is opened: in June and in December 2024
FnCurrentMonths == {<<2024, 6>>, _current_month}
FnSaldoInputs == {0, 1000}
FnBalancePagos(d) == {pagos_df \in FnPagosFor(d) : Len(pagos_df) <= 1}

\* lines 1527-1600: the figures of the two projections of "Balance"
CallBalance ==
    /\ FnReady
    /\ \E items \in FnItemData, saldo_input \in FnSaldoInputs, today \in FnCurrentMonths :
         \E pagos_df \in FnBalancePagos(items) :
            LET d == [items EXCEPT !.pagos = pagos_df]
                year == today[1]
                month == today[2]
                next_year == year + 1
            IN /\ call' = [fn |-> "balance", d |-> d, saldo_input |-> saldo_input,
                           year |-> year, month |-> month]
               /\ ret' = [NoRet EXCEPT !.nums = <<balance_restante(d, year, month),
                                                  saldo_proyectado(d, saldo_input, year, month),
                                                  balance_next_year(d, next_year)>>]
    /\ loop' = NoLoop
    /\ UNCHANGED <<appVars, dbVars>>

\* three expenses due in December 2024, two of them with the same name and
\* category
FnDataThreeDue ==
    [EmptyData EXCEPT
        !.gastos = <<GastoRow(1, FnLuz), GastoRow(2, FnSeguro), GastoRow(3, FnLuz)>>,
        !.gastos_mensuales = FnGastoMonths(1, 2024, 12, 12, 305)
                             \o FnGastoMonths(2, 2024, 12, 12, 70)
                             \o FnGastoMonths(3, 2024, 12, 12, 40)
                             \o FnGastoMonths(3, 2025, 1, 1, 0)]

\* lines 1601-1614: the pending expenses of the month Balance is opened in
CallPendientes ==
    /\ FnReady
    /\ \E items \in FnItemData \cup {FnDataThreeDue}, today \in FnPagoPeriods :
         \E pagos_df \in FnPagosFor(items) :
            LET d == [items EXCEPT !.pagos = pagos_df]
            IN /\ call' = [fn |-> "gastos_pendientes", d |-> d,
                           year |-> today[1], month |-> today[2]]
               /\ ret' = [NoRet EXCEPT !.df = gastos_pendientes(d, today[1], today[2])]
    /\ loop' = NoLoop
    /\ UNCHANGED <<appVars, dbVars>>

\* lines 1008-1024: the deletion of the marked expenses of a dataset
CallEliminar ==
    /\ FnReady
    /\ \E items \in FnItemData \cup {FnDataThreeDue} :
         \E pagos_df \in FnPagosFor(items),
            delete_ids \in SUBSET {items.gastos[i].gasto_id : i \in DOMAIN items.gastos} :
            LET d == [items EXCEPT !.pagos = pagos_df, !.cuenta = <<1000>>,
                                   !.comentarios = <<"luz">>]
            IN /\ delete_ids # {}
               /\ call' = [fn |-> "eliminar", d |-> d, delete_ids |-> delete_ids]
               /\ ret' = [NoRet EXCEPT !.df = <<EliminarGastos(d, delete_ids)>>]
    /\ loop' = NoLoop
    /\ UNCHANGED <<appVars, dbVars>>

\* the months _is_active_for_month is asked about
FnPeriods == {<<2024, 11>>, <<2024, 12>>, <<2025, 1>>, <<2025, 12>>}

CallIsActive ==
    /\ FnReady
    /\ \E fecha_inicio \in FnDates, fecha_termino \in FnDates, period \in FnPeriods :
         /\ call' = [fn |-> "_is_active_for_month", fecha_inicio |-> fecha_inicio,
                     fecha_termino |-> fecha_termino, year |-> period[1], month |-> period[2]]
         /\ ret' = [NoRet EXCEPT !.flag = _is_active_for_month(fecha_inicio, fecha_termino,
                                                               period[1], period[2])]
    /\ loop' = NoLoop
    /\ UNCHANGED <<appVars, dbVars>>

\* lines 293-299: the early return, the swap and the loop's initial values
MonthRangeEnter ==
    /\ FnReady
    /\ \E fecha_inicio \in FnDates, fecha_termino \in FnDates :
         LET start == _parse_date(fecha_inicio)
             end == _parse_date(fecha_termino)
             s == IF DateLT(end, start) THEN end ELSE start
             e == IF DateLT(end, start) THEN start ELSE end
         IN loop' = IF start = NoDate \/ end = NoDate
                    THEN [pc |-> "done", start |-> start, end |-> end,
                          current |-> NoDate, end_month |-> NoDate, months |-> <<>>]
                    ELSE [pc |-> "while", start |-> start, end |-> end,
                          current |-> <<s[1], s[2], 1>>, end_month |-> <<e[1], e[2], 1>>,
                          months |-> <<>>]
    /\ call' = NoCall
    /\ ret' = NoRet
    /\ UNCHANGED <<appVars, dbVars>>

\* lines 300-305: one iteration
MonthRangeStep ==
    /\ loop.pc = "while"
    /\ LoopCond(loop.current, loop.end_month)
    /\ loop' = [loop EXCEPT !.months = Append(@, <<loop.current[1], loop.current[2]>>),
                            !.current = NextMonth(loop.current)]
    /\ UNCHANGED <<call, ret>>
    /\ UNCHANGED <<appVars, dbVars>>

\* line 306: the loop condition is false
MonthRangeReturn ==
    /\ loop.pc = "while"
    /\ ~LoopCond(loop.current, loop.end_month)
    /\ loop' = [loop EXCEPT !.pc = "done"]
    /\ UNCHANGED <<call, ret>>
    /\ UNCHANGED <<appVars, dbVars>>

InitFn ==
    /\ file = _write_empty_data_file
    /\ cache = <<>>
    /\ data = EmptyData
    /\ pc = "idle"
    /\ did_migrate = FALSE
    /\ ui = NoUi
    /\ boots = 0
    /\ call = NoCall
    /\ ret = NoRet
    /\ loop = NoLoop
    /\ db = DbEmpty
    /\ sess = NoSess
    /\ tx = NoTx

NextFn ==
    \/ FnReturn
    \/ CallMonthsForRow
    \/ CallAppendGasto
    \/ CallAppendIngreso
    \/ CallIsActive
    \/ CallPagoForMonth
    \/ CallResumen
    \/ CallBalance
    \/ CallPendientes
    \/ CallEliminar
    \/ MonthRangeEnter
    \/ MonthRangeStep
    \/ MonthRangeReturn

\* a started loop keeps running: nothing else is scheduled while it runs
SpecFn ==
    InitFn /\ [][NextFn]_vars /\ WF_loop(MonthRangeStep) /\ WF_loop(MonthRangeReturn)

-----------------------------------------------------------------------------
(* The store of neon_data.py: load_data and save_data for a user, the
   statements of save_data one at a time inside its transaction, and the
   temporary workbook of _save_data.  gastos, ingresos, cuenta and
   comentarios rows carry a user_id; pagos and the monthly rows belong to the
   user of their expense or income.  Amounts are NUMERIC(14,2): the tenths of
   the model are stored as they are. *)

DbUsers == {1, 2}
MaxDbGastos == 2

\* _to_pg_date that does not recognise datetime.date values
_to_pg_date_NoDates(val) == NoDate

\* _to_pg_date: a date is kept, anything else (None, NaN, a text) is NULL
_to_pg_date(val) == IF Len(val) = 3 THEN val ELSE NoDate

OwnGastoIds(store, uid) ==
    {store.gastos[i].row.gasto_id : i \in {j \in DOMAIN store.gastos : store.gastos[j].user_id = uid}}
OwnIngresoIds(store, uid) ==
    {store.ingresos[i].row.ingreso_id :
        i \in {j \in DOMAIN store.ingresos : store.ingresos[j].user_id = uid}}

\* the rows of a table in the order of ORDER BY: row i has the key keys[i],
\* and the key of a row is unique
Ordered(rows, keys) ==
    LET sorted == SeqOfSet(Range(keys))
    IN [k \in DOMAIN sorted |-> rows[CHOOSE i \in DOMAIN rows : keys[i] = sorted[k]]]

MonthKey(id, year, month) == (id * 10000 + year) * 100 + month

\* neon_data.py lines 84-156
load_data(store, uid) ==
    LET own_gastos == SelectSeq(store.gastos, LAMBDA r : r.user_id = uid)
        own_ingresos == SelectSeq(store.ingresos, LAMBDA r : r.user_id = uid)
        cuenta == SelectSeq(store.cuenta, LAMBDA r : r.user_id = uid)
        comentarios == SelectSeq(store.comentarios, LAMBDA r : r.user_id = uid)
        gastos == [i \in DOMAIN own_gastos |-> own_gastos[i].row]
        ingresos == [i \in DOMAIN own_ingresos |-> own_ingresos[i].row]
        pagos == SelectSeq(store.pagos, LAMBDA r : r.gasto_id \in OwnGastoIds(store, uid))
        gastos_mensuales ==
            SelectSeq(store.gastos_mensuales,
                      LAMBDA r : r.gasto_id \in OwnGastoIds(store, uid))
        ingresos_mensuales ==
            SelectSeq(store.ingresos_mensuales,
                      LAMBDA r : r.ingreso_id \in OwnIngresoIds(store, uid))
    IN [gastos |-> Ordered(gastos, IdColumn(gastos, "gasto_id")),
        pagos |-> Ordered(pagos, IdColumn(pagos, "pago_id")),
        ingresos |-> Ordered(ingresos, IdColumn(ingresos, "ingreso_id")),
        cuenta |-> IF cuenta = <<>> THEN <<0>> ELSE <<cuenta[1].saldo_actual>>,
        gastos_mensuales |->
            Ordered(gastos_mensuales,
                    [i \in DOMAIN gastos_mensuales |->
                       MonthKey(gastos_mensuales[i].gasto_id, gastos_mensuales[i].year,
                                gastos_mensuales[i].month)]),
        ingresos_mensuales |->
            Ordered(ingresos_mensuales,
                    [i \in DOMAIN ingresos_mensuales |->
                       MonthKey(ingresos_mensuales[i].ingreso_id, ingresos_mensuales[i].year,
                                ingresos_mensuales[i].month)]),
        comentarios |-> [i \in DOMAIN comentarios |-> comentarios[i].comentario]]

\* the statements of save_data in their order, then the commit
DbStages ==
    <<"delete", "gastos", "ingresos", "pagos", "cuenta", "gastos_mensuales",
      "ingresos_mensuales", "comentarios", "commit">>

\* a key of the new rows is already in the table, or twice among the new rows
Duplicates(old_keys, new_keys) ==
    \/ \E k \in DOMAIN new_keys : new_keys[k] \in old_keys
    \/ \E k, l \in DOMAIN new_keys : k # l /\ new_keys[k] = new_keys[l]

\* lines 181-198: the DELETE statements of the user, children first
DeleteUser(work, uid) ==
    [gastos |-> SelectSeq(work.gastos, LAMBDA r : r.user_id # uid),
     pagos |-> SelectSeq(work.pagos, LAMBDA r : r.gasto_id \notin OwnGastoIds(work, uid)),
     ingresos |-> SelectSeq(work.ingresos, LAMBDA r : r.user_id # uid),
     cuenta |-> SelectSeq(work.cuenta, LAMBDA r : r.user_id # uid),
     gastos_mensuales |-> SelectSeq(work.gastos_mensuales,
                                    LAMBDA r : r.gasto_id \notin OwnGastoIds(work, uid)),
     ingresos_mensuales |-> SelectSeq(work.ingresos_mensuales,
                                      LAMBDA r : r.ingreso_id \notin OwnIngresoIds(work, uid)),
     comentarios |-> SelectSeq(work.comentarios, LAMBDA r : r.user_id # uid)]

\* lines 200-326: one statement of save_data on the tables of the
\* transaction; error names the exception it raises, "" if none
SaveStage(work, d, uid, stage) ==
    LET Ok(w) == [error |-> "", work |-> w]
        Raise(e) == [error |-> e, work |-> work]
        gasto_ids == {work.gastos[i].row.gasto_id : i \in DOMAIN work.gastos}
        ingreso_ids == {work.ingresos[i].row.ingreso_id : i \in DOMAIN work.ingresos}
    IN CASE stage = "delete" -> Ok(DeleteUser(work, uid))
         [] stage = "gastos" ->
              IF \E i \in DOMAIN d.gastos : Len(d.gastos[i].fecha_pago) = 3
              THEN Raise("TypeError")
              ELSE IF Duplicates(gasto_ids, IdColumn(d.gastos, "gasto_id"))
              THEN Raise("UniqueViolation")
              ELSE Ok([work EXCEPT !.gastos = @ \o
                        [i \in DOMAIN d.gastos |->
                           [row |-> [d.gastos[i] EXCEPT
                                       !.fecha_inicio = _to_pg_date(@),
                                       !.fecha_termino = _to_pg_date(@)],
                            user_id |-> uid]]])
         [] stage = "ingresos" ->
              IF \E i \in DOMAIN d.ingresos : Len(d.ingresos[i].fecha_pago) = 3
              THEN Raise("TypeError")
              ELSE IF Duplicates(ingreso_ids, IdColumn(d.ingresos, "ingreso_id"))
              THEN Raise("UniqueViolation")
              ELSE Ok([work EXCEPT !.ingresos = @ \o
                        [i \in DOMAIN d.ingresos |->
                           [row |-> [d.ingresos[i] EXCEPT
                                       !.fecha_inicio = _to_pg_date(@),
                                       !.fecha_termino = _to_pg_date(@)],
                            user_id |-> uid]]])
         [] stage = "pagos" ->
              IF Duplicates({work.pagos[i].pago_id : i \in DOMAIN work.pagos},
                            IdColumn(d.pagos, "pago_id"))
              THEN Raise("UniqueViolation")
              ELSE IF \E i \in DOMAIN d.pagos : d.pagos[i].gasto_id \notin gasto_ids
              THEN Raise("ForeignKeyViolation")
              ELSE Ok([work EXCEPT !.pagos = @ \o
                        [i \in DOMAIN d.pagos |->
                           [d.pagos[i] EXCEPT !.fecha_pago_real = _to_pg_date(@)]]])
         [] stage = "cuenta" ->
              IF d.cuenta = <<>> THEN Ok(work)
              ELSE Ok([work EXCEPT !.cuenta =
                         Append(@, [saldo_actual |-> d.cuenta[1], user_id |-> uid])])
         [] stage = "gastos_mensuales" ->
              IF Duplicates(GastoKeys(work.gastos_mensuales),
                            [i \in DOMAIN d.gastos_mensuales |->
                               <<d.gastos_mensuales[i].gasto_id, d.gastos_mensuales[i].year,
                                 d.gastos_mensuales[i].month>>])
              THEN Raise("UniqueViolation")
              ELSE IF \E i \in DOMAIN d.gastos_mensuales :
                         d.gastos_mensuales[i].gasto_id \notin gasto_ids
              THEN Raise("ForeignKeyViolation")
              ELSE Ok([work EXCEPT !.gastos_mensuales = @ \o d.gastos_mensuales])
         [] stage = "ingresos_mensuales" ->
              IF Duplicates(IngresoKeys(work.ingresos_mensuales),
                            [i \in DOMAIN d.ingresos_mensuales |->
                               <<d.ingresos_mensuales[i].ingreso_id,
                                 d.ingresos_mensuales[i].year, d.ingresos_mensuales[i].month>>])
              THEN Raise("UniqueViolation")
              ELSE IF \E i \in DOMAIN d.ingresos_mensuales :
                         d.ingresos_mensuales[i].ingreso_id \notin ingreso_ids
              THEN Raise("ForeignKeyViolation")
              ELSE Ok([work EXCEPT !.ingresos_mensuales = @ \o d.ingresos_mensuales])
         [] stage = "comentarios" ->
              Ok([work EXCEPT !.comentarios = @ \o
                    [i \in DOMAIN d.comentarios |->
                       [comentario |-> d.comentarios[i], user_id |-> uid]]])
         [] OTHER -> Ok(work)

\* the tables the store holds after a transaction that was not rolled back
rollback_Missing(committed, work) == work

\* lines 331-333: conn.rollback()
rollback(committed, work) == committed

\* lines 212-226: the sheets in the order _save_data writes them to the
\* temporary workbook, then os.replace
ExcelStages ==
    <<"gastos", "pagos", "ingresos", "cuenta", "gastos_mensuales", "ingresos_mensuales",
      "comentarios", "replace">>

StageAfter(stages, stage) ==
    stages[(CHOOSE i \in DOMAIN stages : stages[i] = stage) + 1]

\* the rows of a user's dataset as the store holds them
WithUser(store, d, uid) ==
    [gastos |-> store.gastos \o [i \in DOMAIN d.gastos |-> [row |-> d.gastos[i], user_id |-> uid]],
     pagos |-> store.pagos \o d.pagos,
     ingresos |-> store.ingresos
                  \o [i \in DOMAIN d.ingresos |-> [row |-> d.ingresos[i], user_id |-> uid]],
     cuenta |-> store.cuenta
                \o [i \in DOMAIN d.cuenta |-> [saldo_actual |-> d.cuenta[i], user_id |-> uid]],
     gastos_mensuales |-> store.gastos_mensuales \o d.gastos_mensuales,
     ingresos_mensuales |-> store.ingresos_mensuales \o d.ingresos_mensuales,
     comentarios |-> store.comentarios
                     \o [i \in DOMAIN d.comentarios |->
                           [comentario |-> d.comentarios[i], user_id |-> uid]]]

\* the datasets of two users: an expense with a payment and its monthly rows
DbDataOne ==
    [FnDataJuneToDecember EXCEPT
        !.pagos = <<FnPagoRow(1, 1, <<2024, 12, 5>>)>>,
        !.cuenta = <<1000>>,
        !.comentarios = <<"luz">>]
DbDataTwo ==
    [EmptyData EXCEPT
        !.gastos = <<GastoRow(2, FnLuz)>>,
        !.gastos_mensuales = FnGastoMonths(2, 2024, 12, 12, 305),
        !.pagos = <<FnPagoRow(2, 2, <<2024, 12, 20>>)>>]

DbInitialStores ==
    {DbEmpty, WithUser(DbEmpty, DbDataOne, 1),
     WithUser(WithUser(DbEmpty, DbDataTwo, 2), DbDataOne, 1)}

TxFree == tx.pc \in {"idle", "done"}

\* a session of the user starts: its dataset is load_data(user_id)
DbLoad ==
    /\ TxFree
    /\ \E uid \in DbUsers : sess' = [uid |-> uid, d |-> load_data(db, uid)]
    /\ tx' = NoTx
    /\ UNCHANGED <<db, appVars, fnVars>>

\* App.py lines 877-895 on the dataset of the session: the new expense gets
\* _next_id of the user's expenses, and its monthly rows
DbRegistrarGasto ==
    /\ TxFree
    /\ sess.uid # 0
    /\ Len(sess.d.gastos) < MaxDbGastos
    /\ \E form \in GastoInputs :
         LET new_row == GastoRow(_next_id(IdColumn(sess.d.gastos, "gasto_id")), form)
         IN sess' = [sess EXCEPT
                       !.d.gastos = Append(@, new_row),
                       !.d.gastos_mensuales = _append_gasto_mensual_entries(@, new_row)]
    /\ tx' = NoTx
    /\ UNCHANGED <<db, appVars, fnVars>>

\* neon_data.py lines 161-178: save_data(data, user_id) opens its transaction
DbSaveBegin ==
    /\ TxFree
    /\ sess.uid # 0
    /\ tx' = [pc |-> "delete", kind |-> "neon", uid |-> sess.uid, d |-> sess.d, work |-> db,
              error |-> "", roundtrip |-> sess.d = load_data(db, sess.uid)]
    /\ UNCHANGED <<db, sess, appVars, fnVars>>

\* App.py lines 212-216: _save_data(path, data) opens the temporary workbook
ExcelSaveBegin ==
    /\ TxFree
    /\ sess.uid # 0
    /\ tx' = [pc |-> "gastos", kind |-> "excel", uid |-> sess.uid, d |-> sess.d,
              work |-> _write_empty_data_file, error |-> "", roundtrip |-> FALSE]
    /\ UNCHANGED <<db, sess, appVars, fnVars>>

\* the next statement of save_data, its commit, or its rollback when the
\* statement raises; the next sheet of _save_data, or its os.replace
SaveStep ==
    /\ ~TxFree
    /\ CASE tx.kind = "neon" /\ tx.pc = "commit" ->
               /\ db' = tx.work
               /\ tx' = [tx EXCEPT !.pc = "done"]
               /\ file' = file
         [] tx.kind = "neon" /\ tx.pc # "commit" ->
               LET res == SaveStage(tx.work, tx.d, tx.uid, tx.pc)
               IN /\ tx' = IF res.error = ""
                           THEN [tx EXCEPT !.pc = StageAfter(DbStages, tx.pc),
                                           !.work = res.work]
                           ELSE [tx EXCEPT !.pc = "done", !.error = res.error]
                  /\ db' = IF res.error = "" THEN db ELSE rollback(db, tx.work)
                  /\ file' = file
         [] tx.kind = "excel" /\ tx.pc = "replace" ->
               /\ file' = tx.work
               /\ tx' = [tx EXCEPT !.pc = "done"]
               /\ db' = db
         [] OTHER ->
               /\ tx' = [tx EXCEPT !.pc = StageAfter(ExcelStages, tx.pc),
                                   !.work = [tx.work EXCEPT ![tx.pc] = tx.d[tx.pc]]]
               /\ file' = file
               /\ db' = db
    /\ UNCHANGED <<sess, cache, data, pc, did_migrate, ui, boots, fnVars>>

\* an exception at the current step: the connection is lost, the disk is
\* full.  save_data rolls back and raises; _save_data lets it propagate
SaveFail ==
    /\ ~TxFree
    /\ tx' = [tx EXCEPT !.pc = "done",
                        !.error = IF tx.kind = "neon" THEN "OperationalError" ELSE "OSError"]
    /\ db' = IF tx.kind = "neon" THEN rollback(db, tx.work) ELSE db
    /\ UNCHANGED <<sess, appVars, fnVars>>

InitDb ==
    /\ file = _write_empty_data_file
    /\ cache = <<>>
    /\ data = EmptyData
    /\ pc = "idle"
    /\ did_migrate = FALSE
    /\ ui = NoUi
    /\ boots = 0
    /\ call = NoCall
    /\ ret = NoRet
    /\ loop = NoLoop
    /\ db \in DbInitialStores
    /\ sess = NoSess
    /\ tx = NoTx

NextDb ==
    \/ DbLoad
    \/ DbRegistrarGasto
    \/ DbSaveBegin
    \/ ExcelSaveBegin
    \/ SaveStep
    \/ SaveFail

SpecDb == InitDb /\ [][NextDb]_vars

-----------------------------------------------------------------------------
(* Properties *)

\* the (gasto_id, year, month) period of each stored payment, in stored order
PagoPeriods(pagos_df) ==
    [i \in DOMAIN pagos_df |->
        LET fecha == _parse_date(pagos_df[i].fecha_pago_real)
        IN IF fecha = NoDate THEN <<pagos_df[i].gasto_id, 0, 0>>
           ELSE <<pagos_df[i].gasto_id, fecha[1], fecha[2]>>]

PagosUnique(pagos_df) ==
    \A i, j \in DOMAIN pagos_df :
        PagoPeriods(pagos_df)[i] = PagoPeriods(pagos_df)[j] => i = j

\* a "Guardar pagos del mes" step that registers an expense for a period the
\* workbook already holds a payment of leaves that payment as it was
PagoNotOverwritten ==
    (pc = "run" /\ ui'.op = "guardar_pagos") =>
        \A i \in DOMAIN file.pagos :
            LET pago == file.pagos[i]
                period == PagoPeriods(file.pagos)[i]
            IN (/\ period[2] = ui'.year /\ period[3] = ui'.month
                /\ \E k \in DOMAIN ui'.editor : ui'.editor[k].gasto_id = pago.gasto_id)
               => _get_pago_for_month(file'.pagos, pago.gasto_id, period[2], period[3]) = <<pago>>

\* C1: in every reachable state the stored payments hold at most one payment
\* per (gasto_id, year, month), and registering a payment again for a period
\* that already has one leaves exactly one stored payment, the existing one,
\* not overwritten.
C1_OnePaymentPerPeriod ==
    /\ [](PagosUnique(file.pagos) /\ PagosUnique(data.pagos))
    /\ [][PagoNotOverwritten]_vars

KeysUnique(keys_of_rows) ==
    \A i, j \in DOMAIN keys_of_rows : keys_of_rows[i] = keys_of_rows[j] => i = j

GastoKeySeq(df) == [i \in DOMAIN df |-> <<df[i].gasto_id, df[i].year, df[i].month>>]
IngresoKeySeq(df) == [i \in DOMAIN df |-> <<df[i].ingreso_id, df[i].year, df[i].month>>]

\* C2: in every reachable state the two override tables, in the workbook and
\* in the dataset of the run, hold at most one row per (item id, year, month).
C2_OverrideKeysUnique ==
    /\ KeysUnique(GastoKeySeq(file.gastos_mensuales))
    /\ KeysUnique(IngresoKeySeq(file.ingresos_mensuales))
    /\ KeysUnique(GastoKeySeq(data.gastos_mensuales))
    /\ KeysUnique(IngresoKeySeq(data.ingresos_mensuales))

\* a year of an expense was rewritten while the legacy adjustment merged at
\* load and the rows added by the migration for another year are in the table
C2_Witness ==
    /\ ui.op = "guardar_montos"
    /\ file.ajustes = <<>>
    /\ \E i, j \in DOMAIN file.gastos_mensuales :
          /\ file.gastos_mensuales[i].year # ui.year
          /\ file.gastos_mensuales[j].year = ui.year
          /\ file.gastos_mensuales[j].monto_presupuestado = 0
    /\ file.ingresos_mensuales # <<>>

\* what amount_for must return, read off the rows of the table: the amount of
\* the row of the key when there is one, zero when there is none
StoredOrZero(amount, amounts_of_key) ==
    IF amounts_of_key = {} THEN amount = 0 ELSE amounts_of_key = {amount}

\* C3: for every item, year and month, amount_for returns the amount of the
\* stored override row of (item, year, month) when that row exists and 0 when
\* it does not; it never returns the base amount for a period with no row.
C3_AmountForIsOverrideOrZero ==
    \A year \in year_options :
        LET gmap == _gastos_mensuales_map_for_year(data.gastos_mensuales, year)
            imap == _ingresos_mensuales_map_for_year(data.ingresos_mensuales, year)
        IN /\ \A g \in DOMAIN data.gastos, month \in 1..12 :
                StoredOrZero(_presupuesto_for_month(data.gastos[g], year, month, gmap),
                    {data.gastos_mensuales[i].monto_presupuestado :
                        i \in {k \in DOMAIN data.gastos_mensuales :
                                  GastoKeySeq(data.gastos_mensuales)[k] =
                                      <<data.gastos[g].gasto_id, year, month>>}})
           /\ \A g \in DOMAIN data.ingresos, month \in 1..12 :
                StoredOrZero(_monto_ingreso_for_month(data.ingresos[g], year, month, imap),
                    {data.ingresos_mensuales[i].monto :
                        i \in {k \in DOMAIN data.ingresos_mensuales :
                                  IngresoKeySeq(data.ingresos_mensuales)[k] =
                                      <<data.ingresos[g].ingreso_id, year, month>>}})

\* an expense with a nonzero base amount has a period without a row and a
\* period whose row holds another amount than the base
C3_Witness ==
    \E g \in DOMAIN data.gastos :
        /\ data.gastos[g].monto_presupuestado # 0
        /\ <<data.gastos[g].gasto_id, 2024, 10>> \notin GastoKeys(data.gastos_mensuales)
        /\ \E i \in DOMAIN data.gastos_mensuales :
              /\ data.gastos_mensuales[i].gasto_id = data.gastos[g].gasto_id
              /\ data.gastos_mensuales[i].monto_presupuestado
                    \notin {0, data.gastos[g].monto_presupuestado}

\* the rows of the editor that belong to the item
EditorRowsOf(id) == {t \in DOMAIN ui.editor : ui.editor[t].id = id}

\* the number the handler reads in a cell; a blank cell is zero
CellAmount(text) == IF text = <<>> THEN 0 ELSE _parse_amount(text)

OtherYears(mensuales_df, year) == SelectSeq(mensuales_df, LAMBDA r : r.year # year)

\* a "Guardar montos" step of year Y, on the dataset of the run
ReplaceYearFrame ==
    /\ (pc = "run" /\ ui'.op = "guardar_montos") =>
          /\ OtherYears(data'.gastos_mensuales, ui'.year)
                = OtherYears(data.gastos_mensuales, ui'.year)
          /\ data'.ingresos_mensuales = data.ingresos_mensuales
    /\ (pc = "run" /\ ui'.op = "guardar_montos_ingresos") =>
          /\ OtherYears(data'.ingresos_mensuales, ui'.year)
                = OtherYears(data.ingresos_mensuales, ui'.year)
          /\ data'.gastos_mensuales = data.gastos_mensuales
    /\ (pc = "run" /\ ui'.op \in {"guardar_montos", "guardar_montos_ingresos"}) =>
          /\ data'.gastos = data.gastos
          /\ data'.ingresos = data.ingresos
          /\ data'.pagos = data.pagos
          /\ data'.cuenta = data.cuenta
          /\ data'.comentarios = data.comentarios
          /\ file' = _save_data(data')

\* C5: "Guardar montos" of a year Y removes and rewrites only the override
\* rows of year Y of the dataset it works on: the rows of every other year are
\* there afterwards, in the same order with the same amounts, and the items,
\* the payments, the account balance and the comment are unchanged.
C5_ReplaceYearTouchesOnlyYear == [][ReplaceYearFrame]_vars

\* a year was saved while the table held rows of another year, and the
\* dataset held a payment, a balance and a comment
C5_Witness ==
    /\ ui.op = "guardar_montos"
    /\ \E i \in DOMAIN data.gastos_mensuales :
          /\ data.gastos_mensuales[i].year # ui.year
          /\ data.gastos_mensuales[i].monto_presupuestado # 0
    /\ data.pagos # <<>>
    /\ file.pagos = data.pagos

\* the due periods of an item, as a set of <<year, month>>
DuePeriods(row) ==
    Range(_months_for_row(row.periodicidad, row.fecha_pago, row.fecha_inicio,
                          row.fecha_termino))

IsPrefix(p, q) == Len(p) <= Len(q) /\ SubSeq(q, 1, Len(p)) = p

\* a load step: the tables after the migration against the loaded ones
MigrationOnlyAdds ==
    (pc = "idle" /\ pc' = "run") =>
        LET loaded == cache'[1]
            gm == data'.gastos_mensuales
            im == data'.ingresos_mensuales
        IN /\ IsPrefix(loaded.gastos_mensuales, gm)
           /\ IsPrefix(loaded.ingresos_mensuales, im)
           /\ \A i \in (Len(loaded.gastos_mensuales) + 1)..Len(gm) :
                 /\ GastoKeySeq(gm)[i] \notin GastoKeys(loaded.gastos_mensuales)
                 /\ \E g \in DOMAIN loaded.gastos :
                       /\ loaded.gastos[g].gasto_id = gm[i].gasto_id
                       /\ <<gm[i].year, gm[i].month>> \in DuePeriods(loaded.gastos[g])
           /\ \A i \in (Len(loaded.ingresos_mensuales) + 1)..Len(im) :
                 /\ IngresoKeySeq(im)[i] \notin IngresoKeys(loaded.ingresos_mensuales)
                 /\ \E g \in DOMAIN loaded.ingresos :
                       /\ loaded.ingresos[g].ingreso_id = im[i].ingreso_id
                       /\ <<im[i].year, im[i].month>> \in DuePeriods(loaded.ingresos[g])
           /\ did_migrate' <=> (Len(gm) > Len(loaded.gastos_mensuales)
                                 \/ Len(im) > Len(loaded.ingresos_mensuales))

\* C7: the migration at load never changes or removes an existing override
\* row: the loaded rows are kept in place, every added row has a key the
\* loaded table lacked and is a due period of an item, and the flag it
\* returns is true exactly when a row was added.
C7_MigrationOnlyAdds == [][MigrationOnlyAdds]_vars

\* a load migrated a table that held a row the user had set to zero: the row
\* is still zero and rows were added after it
C7_Witness ==
    /\ pc = "run"
    /\ did_migrate
    /\ cache[1].gastos_mensuales # <<>>
    /\ Len(data.gastos_mensuales) > Len(cache[1].gastos_mensuales)
    /\ data.gastos_mensuales[1].monto_presupuestado = 0
    /\ \E g \in DOMAIN data.gastos :
          /\ data.gastos[g].gasto_id = data.gastos_mensuales[1].gasto_id
          /\ data.gastos[g].monto_presupuestado # 0

\* the workbook holds every row the migration would add
FileIsMigrated ==
    LET d == _read_data_file(file)
    IN ~_migrate_mensuales_from_base(d.gastos, d.ingresos, d.gastos_mensuales,
                                     d.ingresos_mensuales).changed

\* C8: the migration is idempotent: run on its own result it returns the
\* same tables and changed = false, so once the workbook holds the migrated
\* tables no later load migrates or saves again.
C8_MigrationIdempotent ==
    /\ [](pc = "run" =>
            LET again == _migrate_mensuales_from_base(data.gastos, data.ingresos,
                            data.gastos_mensuales, data.ingresos_mensuales)
            IN /\ again.gastos_mensuales = data.gastos_mensuales
               /\ again.ingresos_mensuales = data.ingresos_mensuales
               /\ ~again.changed)
    /\ [][(pc = "idle" /\ pc' = "run" /\ FileIsMigrated)
            => (~did_migrate' /\ file' = file)]_vars

HasNoGastoRows(d, id) == \A i \in DOMAIN d.gastos_mensuales : d.gastos_mensuales[i].gasto_id # id
HasNoIngresoRows(d, id) ==
    \A i \in DOMAIN d.ingresos_mensuales : d.ingresos_mensuales[i].ingreso_id # id

GastoAmount(d, row, year, month) ==
    _presupuesto_for_month(row, year, month,
                           _gastos_mensuales_map_for_year(d.gastos_mensuales, year))
IngresoAmount(d, row, year, month) ==
    _monto_ingreso_for_month(row, year, month,
                             _ingresos_mensuales_map_for_year(d.ingresos_mensuales, year))

\* a load step, for the items that had no override row when loaded
MigrationSeedsBase ==
    (pc = "idle" /\ pc' = "run") =>
        LET loaded == cache'[1]
        IN /\ \A g \in DOMAIN loaded.gastos :
                 HasNoGastoRows(loaded, loaded.gastos[g].gasto_id) =>
                    LET due == DuePeriods(loaded.gastos[g])
                    IN \A year \in year_options :
                         LET gmap == _gastos_mensuales_map_for_year(data'.gastos_mensuales, year)
                         IN \A month \in 1..12 :
                              _presupuesto_for_month(loaded.gastos[g], year, month, gmap)
                                = IF <<year, month>> \in due
                                  THEN loaded.gastos[g].monto_presupuestado ELSE 0
           /\ \A g \in DOMAIN loaded.ingresos :
                 HasNoIngresoRows(loaded, loaded.ingresos[g].ingreso_id) =>
                    LET due == DuePeriods(loaded.ingresos[g])
                    IN \A year \in year_options :
                         LET imap == _ingresos_mensuales_map_for_year(data'.ingresos_mensuales, year)
                         IN \A month \in 1..12 :
                              _monto_ingreso_for_month(loaded.ingresos[g], year, month, imap)
                                = IF <<year, month>> \in due
                                  THEN loaded.ingresos[g].monto ELSE 0

\* a handler step that changes an override table: the amount of a period of
\* an item that stays in the dataset changes only when the year editor of
\* that year is saved
OnlyReplaceYearChangesAmounts ==
    /\ (pc = "run" /\ data'.gastos_mensuales # data.gastos_mensuales) =>
          \A year \in year_options :
              LET gmap == _gastos_mensuales_map_for_year(data.gastos_mensuales, year)
                  gmap2 == _gastos_mensuales_map_for_year(data'.gastos_mensuales, year)
              IN \A g \in DOMAIN data.gastos, month \in 1..12 :
                     (/\ data.gastos[g] \in Range(data'.gastos)
                      /\ _presupuesto_for_month(data.gastos[g], year, month, gmap2)
                            # _presupuesto_for_month(data.gastos[g], year, month, gmap))
                     => (ui'.op = "guardar_montos" /\ ui'.year = year)
    /\ (pc = "run" /\ data'.ingresos_mensuales # data.ingresos_mensuales) =>
          \A year \in year_options :
              LET imap == _ingresos_mensuales_map_for_year(data.ingresos_mensuales, year)
                  imap2 == _ingresos_mensuales_map_for_year(data'.ingresos_mensuales, year)
              IN \A g \in DOMAIN data.ingresos, month \in 1..12 :
                     (/\ data.ingresos[g] \in Range(data'.ingresos)
                      /\ _monto_ingreso_for_month(data.ingresos[g], year, month, imap2)
                            # _monto_ingreso_for_month(data.ingresos[g], year, month, imap))
                     => (ui'.op = "guardar_montos_ingresos" /\ ui'.year = year)

\* C9: for an item that has no override row before the migration, after the
\* migration amount_for(item, year, month) is the base amount of the item
\* for each of its due periods and 0 for every other period, and it stays so
\* until the year editor of that year writes another value.
C9_MigratedAmountIsBase ==
    /\ [][MigrationSeedsBase]_vars
    /\ [][OnlyReplaceYearChangesAmounts]_vars

\* a load migrated an expense and an income that had no override row
C9_Witness ==
    /\ pc = "run"
    /\ did_migrate
    /\ cache[1].gastos # <<>> /\ cache[1].gastos_mensuales = <<>>
    /\ cache[1].ingresos # <<>> /\ cache[1].ingresos_mensuales = <<>>
    /\ GastoAmount(data, data.gastos[1], 2025, 1) = data.gastos[1].monto_presupuestado
    /\ data.gastos[1].monto_presupuestado # 0
    /\ GastoAmount(data, data.gastos[1], 2025, 2) = 0

\* the rows of a table after position n
RowsAfter(df, n) == SubSeq(df, n + 1, Len(df))

\* C6: appending the entries of an item keeps the rows of the table, inserts
\* one row with the base amount for each due period of the item whose key the
\* table lacks, inserts nothing for a key already present, and is
\* idempotent: appending again for the same item changes nothing.
C6_AppendIfAbsent ==
    /\ call.fn = "_append_gasto_mensual_entries" =>
          LET id == call.row.gasto_id
              added == RowsAfter(ret.df, Len(call.df))
          IN /\ IsPrefix(call.df, ret.df)
             /\ \A i \in DOMAIN added :
                   /\ GastoKeySeq(added)[i] \notin GastoKeys(call.df)
                   /\ added[i].gasto_id = id
                   /\ <<added[i].year, added[i].month>> \in DuePeriods(call.row)
                   /\ added[i].monto_presupuestado = call.row.monto_presupuestado
             /\ \A ym \in DuePeriods(call.row) :
                   Cardinality({i \in DOMAIN ret.df :
                                  GastoKeySeq(ret.df)[i] = <<id, ym[1], ym[2]>>}) = 1
             /\ _append_gasto_mensual_entries(ret.df, call.row) = ret.df
    /\ call.fn = "_append_ingreso_mensual_entries" =>
          LET id == call.row.ingreso_id
              added == RowsAfter(ret.df, Len(call.df))
          IN /\ IsPrefix(call.df, ret.df)
             /\ \A i \in DOMAIN added :
                   /\ IngresoKeySeq(added)[i] \notin IngresoKeys(call.df)
                   /\ added[i].ingreso_id = id
                   /\ <<added[i].year, added[i].month>> \in DuePeriods(call.row)
                   /\ added[i].monto = call.row.monto
             /\ \A ym \in DuePeriods(call.row) :
                   Cardinality({i \in DOMAIN ret.df :
                                  IngresoKeySeq(ret.df)[i] = <<id, ym[1], ym[2]>>}) = 1
             /\ _append_ingreso_mensual_entries(ret.df, call.row) = ret.df

\* the number of the calendar month of <<year, month>>, counted from year 0
MonthIndex(ym) == ym[1] * 12 + ym[2] - 1

\* months lists every calendar month from that of from to that of to, once,
\* in increasing order
EveryMonthOnce(months, from, to) ==
    /\ Len(months) = MonthIndex(to) - MonthIndex(from) + 1
    /\ \A i \in DOMAIN months :
          /\ Len(months[i]) = 2
          /\ months[i][2] \in 1..12
          /\ MonthIndex(months[i]) = MonthIndex(from) + i - 1
    /\ \A i \in 1..(Len(months) - 1) :
          /\ MonthIndex(months[i]) < MonthIndex(months[i + 1])
          /\ months[i][2] = 12 => months[i + 1] = <<months[i][1] + 1, 1>>

\* C10: for a monthly item whose start date is not after its end date the
\* expansion lists exactly one (year, month) for every calendar month from
\* the month of the start to the month of the end, both included, in
\* strictly increasing order, December followed by January of the next
\* year; and the loop that builds the list terminates.
C10_MonthlyExpansion ==
    /\ []((/\ call.fn = "_months_for_row"
            /\ call.periodicidad = "Mensual"
            /\ _parse_date(call.fecha_inicio) # NoDate
            /\ _parse_date(call.fecha_termino) # NoDate
            /\ DateLE(_parse_date(call.fecha_inicio), _parse_date(call.fecha_termino)))
           => EveryMonthOnce(ret.months, _parse_date(call.fecha_inicio),
                             _parse_date(call.fecha_termino)))
    /\ []((/\ loop.pc = "done"
            /\ loop.start # NoDate
            /\ loop.end # NoDate
            /\ DateLE(loop.start, loop.end))
           => EveryMonthOnce(loop.months, loop.start, loop.end))
    /\ ((loop.pc = "while") ~> (loop.pc = "done"))

\* the loop returned the sixteen months from November 2024 to February 2026,
\* across two year ends
C10_Witness ==
    /\ loop.pc = "done"
    /\ loop.start = <<2024, 11, 15>>
    /\ loop.end = <<2026, 2, 1>>
    /\ Len(loop.months) = 16
    /\ loop.months[2] = <<2024, 12>>
    /\ loop.months[3] = <<2025, 1>>

\* the earlier and the later of two dates
EarlierOf(a, b) == IF DateLT(b, a) THEN b ELSE a
LaterOf(a, b) == IF DateLT(b, a) THEN a ELSE b

\* the calendar months from that of date a to that of date b whose month
\* number is in the set ms
MonthsBetween(a, b, ms) ==
    {<<y, m>> : y \in a[1]..b[1], m \in ms} \cap
    {ym \in (a[1]..b[1]) \X (1..12) :
        MonthIndex(<<a[1], a[2]>>) <= MonthIndex(ym) /\ MonthIndex(ym) <= MonthIndex(<<b[1], b[2]>>)}

StrictlyIncreasing(months) ==
    \A i \in 1..(Len(months) - 1) : MonthIndex(months[i]) < MonthIndex(months[i + 1])

\* C11: for an annual item whose fecha_pago parses, every period returned has
\* the month of fecha_pago, and the result lists, in increasing order, exactly
\* the months of the monthly range of the item that have that month number:
\* one per year in which that month lies inside the range.
C11_AnnualExpansion ==
    (/\ call.fn = "_months_for_row"
     /\ call.periodicidad = "Anual"
     /\ _parse_date(call.fecha_pago) # NoDate)
    => LET pago == _parse_date(call.fecha_pago)
           inicio == _parse_date(call.fecha_inicio)
           termino == _parse_date(call.fecha_termino)
       IN /\ \A i \in DOMAIN ret.months : ret.months[i][2] = pago[2]
          /\ StrictlyIncreasing(ret.months)
          /\ Range(ret.months) =
                IF inicio = NoDate \/ termino = NoDate THEN {}
                ELSE MonthsBetween(EarlierOf(inicio, termino), LaterOf(inicio, termino),
                                   {pago[2]})

\* an annual item anchored in December, valid from November 2024 to February
\* 2026: December 2024 and December 2025, and no December 2026
C11_Witness ==
    /\ call.fn = "_months_for_row"
    /\ call.periodicidad = "Anual"
    /\ call.fecha_pago = <<2024, 12, 20>>
    /\ call.fecha_inicio = <<2024, 11, 15>>
    /\ call.fecha_termino = <<2026, 2, 1>>
    /\ ret.months = << <<2024, 12>>, <<2025, 12>> >>

\* C12: when the end date is earlier than the start date the expansion is
\* that of the range with the two dates exchanged, and for a monthly item it
\* is never empty: it lists every month from that of the end date to that of
\* the start date.
C12_ReversedRangeIsSwapped ==
    /\ (/\ call.fn = "_months_for_row"
         /\ _parse_date(call.fecha_inicio) # NoDate
         /\ _parse_date(call.fecha_termino) # NoDate
         /\ DateLT(_parse_date(call.fecha_termino), _parse_date(call.fecha_inicio)))
        => /\ ret.months = _months_for_row(call.periodicidad, call.fecha_pago,
                                            call.fecha_termino, call.fecha_inicio)
           /\ call.periodicidad = "Mensual" =>
                 /\ ret.months # <<>>
                 /\ EveryMonthOnce(ret.months, _parse_date(call.fecha_termino),
                                   _parse_date(call.fecha_inicio))
    /\ (/\ loop.pc = "done"
         /\ loop.start # NoDate
         /\ loop.end # NoDate
         /\ DateLT(loop.end, loop.start))
        => EveryMonthOnce(loop.months, loop.end, loop.start)

\* a monthly item that starts on 2025-01-31 and ends on 2024-11-15 is due in
\* November, December and January
C12_Witness ==
    /\ call.fn = "_months_for_row"
    /\ call.periodicidad = "Mensual"
    /\ call.fecha_inicio = <<2025, 1, 31>>
    /\ call.fecha_termino = <<2024, 11, 15>>
    /\ ret.months = << <<2024, 11>>, <<2024, 12>>, <<2025, 1>> >>

\* the months the application asks about
ReferenceMonths == year_options \X (1..12)

\* C13: for a monthly item whose start or end date is missing or does not
\* parse, the expansion replaces the missing start by day 1 and the missing
\* end by day 28 of the reference month and lists the months of that range,
\* so the item is due in at least the reference month.
C13_MissingBoundDefaults ==
    (/\ call.fn = "_months_for_row"
     /\ call.periodicidad = "Mensual"
     /\ (_parse_date(call.fecha_inicio) = NoDate \/ _parse_date(call.fecha_termino) = NoDate))
    => \E ref \in ReferenceMonths :
          LET inicio == IF _parse_date(call.fecha_inicio) # NoDate
                        THEN _parse_date(call.fecha_inicio) ELSE <<ref[1], ref[2], 1>>
              termino == IF _parse_date(call.fecha_termino) # NoDate
                         THEN _parse_date(call.fecha_termino) ELSE <<ref[1], ref[2], 28>>
          IN /\ EveryMonthOnce(ret.months, EarlierOf(inicio, termino), LaterOf(inicio, termino))
             /\ ref \in Range(ret.months)

\* a date as one number, for comparing
DayNumber(d) == d[1] * 10000 + d[2] * 100 + d[3]

\* C14: _is_active_for_month(start, end, year, month) is true exactly when
\* start <= date(year, month, 28) and end >= date(year, month, 1), a missing
\* start counting as day 1 and a missing end as day 28 of that month; so an
\* item that starts on day 29, 30 or 31 of the month is not active in it.
C14_ActiveUsesDay28 ==
    call.fn = "_is_active_for_month" =>
        LET inicio == _parse_date(call.fecha_inicio)
            termino == _parse_date(call.fecha_termino)
            start == IF inicio = NoDate THEN DayNumber(<<call.year, call.month, 1>>)
                     ELSE DayNumber(inicio)
            end == IF termino = NoDate THEN DayNumber(<<call.year, call.month, 28>>)
                   ELSE DayNumber(termino)
        IN /\ ret.flag <=> (/\ start <= DayNumber(<<call.year, call.month, 28>>)
                            /\ end >= DayNumber(<<call.year, call.month, 1>>))
           /\ (/\ inicio # NoDate
               /\ inicio[1] = call.year /\ inicio[2] = call.month /\ inicio[3] >= 29)
              => ~ret.flag

\* an item that starts on 2025-01-31 and ends in 2026 is not active in
\* January 2025
C14_Witness ==
    /\ call.fn = "_is_active_for_month"
    /\ call.fecha_inicio = <<2025, 1, 31>>
    /\ call.fecha_termino = <<2026, 2, 1>>
    /\ call.year = 2025 /\ call.month = 1
    /\ ~ret.flag

\* what "Guardar pagos del mes" stores for a supplied date
StoredDateOf(supplied, Y, M) ==
    IF supplied = NoDate THEN <<Y, M, 1>>
    ELSE IF supplied[1] = Y /\ supplied[2] = M THEN supplied
    ELSE <<Y, M, IF supplied[3] <= LastDay(Y, M) THEN supplied[3] ELSE LastDay(Y, M)>>

PagosRegisteredInPeriod ==
    (pc = "run" /\ ui'.op = "guardar_pagos" /\ Len(data'.pagos) > Len(data.pagos))
    => /\ \A k \in (Len(data.pagos) + 1)..Len(data'.pagos) :
            LET pago == data'.pagos[k]
                stored == pago.fecha_pago_real
            IN /\ Len(stored) = 3
               /\ stored[1] = ui'.year
               /\ stored[2] = ui'.month
               /\ stored[3] \in 1..LastDay(ui'.year, ui'.month)
               /\ \E i \in DOMAIN ui'.editor :
                     /\ ui'.editor[i].gasto_id = pago.gasto_id
                     /\ stored = StoredDateOf(_parse_date(ui'.editor[i].fecha_pago_real),
                                              ui'.year, ui'.month)
       /\ file'.pagos = data'.pagos

\* C15: every payment that "Guardar pagos del mes" stores for the period
\* (Y, M) has a date of year Y and month M: a supplied date of (Y, M) is
\* stored as it is, a supplied date of another period becomes day
\* min(supplied day, last day of M) of (Y, M), and a missing or unreadable
\* date becomes day 1 of (Y, M).
C15_StoredDateInTargetPeriod == [][PagosRegisteredInPeriod]_vars

\* a payment for November 2024 was supplied with the date 2025-01-31 and is
\* stored on 2024-11-30
C15_Witness ==
    /\ ui.op = "guardar_pagos"
    /\ ui.year = 2024 /\ ui.month = 11
    /\ \E i \in DOMAIN ui.editor : ui.editor[i].fecha_pago_real = <<2025, 1, 31>>
    /\ \E k \in DOMAIN data.pagos : data.pagos[k].fecha_pago_real = <<2024, 11, 30>>
    /\ file.pagos = data.pagos

\* the number of rows "Guardar pagos del mes" adds for an expense
PagosAddedFor(gasto_id) ==
    Cardinality({k \in (Len(data.pagos) + 1)..Len(data'.pagos) :
                    data'.pagos[k].gasto_id = gasto_id})

BatchSkipsPaidItems ==
    (pc = "run" /\ ui'.op = "guardar_pagos") =>
        \A i \in DOMAIN ui'.editor :
            LET gasto_id == ui'.editor[i].gasto_id
            IN IF _paid_in_month(file.pagos, gasto_id, ui'.year, ui'.month)
               THEN /\ PagosAddedFor(gasto_id) = 0
                    /\ _get_pago_for_month(file'.pagos, gasto_id, ui'.year, ui'.month)
                         = _get_pago_for_month(file.pagos, gasto_id, ui'.year, ui'.month)
               ELSE /\ PagosAddedFor(gasto_id) = 1
                    /\ file'.pagos = data'.pagos

\* C16: in a batch of "Guardar pagos del mes" for the period (Y, M), a marked
\* expense that already has a stored payment in (Y, M) is skipped and gets no
\* row, and every other marked expense of the batch gets exactly one new
\* payment, which is saved.
C16_BatchSkipsPaidItems == [][BatchSkipsPaidItems]_vars

\* the positions of the payments of the called item whose date parses and
\* lies in the called period
PagoHits ==
    {i \in DOMAIN call.df :
        /\ call.df[i].gasto_id = call.gasto_id
        /\ _parse_date(call.df[i].fecha_pago_real) # NoDate
        /\ _parse_date(call.df[i].fecha_pago_real)[1] = call.year
        /\ _parse_date(call.df[i].fecha_pago_real)[2] = call.month}

\* C17: for every payments table, expense, year and month, _paid_in_month is
\* true exactly when _get_pago_for_month returns a payment, and exactly when
\* some payment of the expense has a date that parses and lies in the period;
\* the payment returned is the first such one in stored order, and a payment
\* whose date is missing or does not parse is never returned.
C17_PaidIffPagoForMonth ==
    call.fn = "_get_pago_for_month" =>
        /\ ret.flag <=> (ret.df # <<>>)
        /\ ret.flag <=> (PagoHits # {})
        /\ PagoHits # {} =>
              /\ Len(ret.df) = 1
              /\ \E i \in PagoHits : /\ ret.df[1] = call.df[i]
                                      /\ \A j \in PagoHits : i <= j
        /\ ret.df # <<>> => _parse_date(ret.df[1].fecha_pago_real) # NoDate

\* the expense has two payments in December 2024 and the first one is returned
C17_Witness ==
    /\ call.fn = "_get_pago_for_month"
    /\ call.gasto_id = 1 /\ call.year = 2024 /\ call.month = 12
    /\ call.df = << FnPagoRow(1, 1, <<2024, 12, 20>>), FnPagoRow(2, 1, <<2024, 12, 5>>) >>
    /\ ret.flag
    /\ ret.df = << FnPagoRow(1, 1, <<2024, 12, 20>>) >>

\* the sum of the values of a function with a finite domain
RECURSIVE SumOf(_)
SumOf(f) ==
    IF DOMAIN f = {} THEN 0
    ELSE LET x == CHOOSE y \in DOMAIN f : TRUE
         IN f[x] + SumOf([y \in DOMAIN f \ {x} |-> f[y]])

\* the override amount stored for the expense in (year, month), 0 if none
AmountFor(d, gasto_id, year, month) ==
    LET rows == {i \in DOMAIN d.gastos_mensuales :
                    /\ d.gastos_mensuales[i].gasto_id = gasto_id
                    /\ d.gastos_mensuales[i].year = year
                    /\ d.gastos_mensuales[i].month = month}
    IN IF rows = {} THEN 0
       ELSE d.gastos_mensuales[CHOOSE i \in rows : TRUE].monto_presupuestado

\* the positions of the payments whose date parses and lies in (year, month)
PagosIn(pagos_df, year, month) ==
    {i \in DOMAIN pagos_df :
        /\ _parse_date(pagos_df[i].fecha_pago_real) # NoDate
        /\ _parse_date(pagos_df[i].fecha_pago_real)[1] = year
        /\ _parse_date(pagos_df[i].fecha_pago_real)[2] = month}

\* C18: in "Resumen del mes" of (year, month) the budgeted expense is the sum
\* over the expenses of their amount for the month, the actual expense is the
\* sum of monto_real over the payments, of any expense, whose date parses and
\* lies in the month, and the pending amount is max(budgeted - actual, 0): it
\* is never negative, also when the actual expense exceeds the budgeted one.
C18_MonthlySummary ==
    call.fn = "resumen" =>
        LET budgeted == SumOf([i \in DOMAIN call.d.gastos |->
                                 AmountFor(call.d, call.d.gastos[i].gasto_id,
                                           call.year, call.month)])
            actual == SumOf([i \in PagosIn(call.d.pagos, call.year, call.month) |->
                               call.d.pagos[i].monto_real])
        IN /\ ret.nums[1] = budgeted
           /\ ret.nums[2] = actual
           /\ ret.nums[3] = IF budgeted >= actual THEN budgeted - actual ELSE 0
           /\ ret.nums[3] >= 0

\* December 2024 with 7 budgeted, a payment of 10 in the month and a payment
\* without a date: the actual expense is above the budgeted one
C18_Witness ==
    /\ call.fn = "resumen"
    /\ call.year = 2024 /\ call.month = 12
    /\ ret.nums[1] = 70
    /\ ret.nums[2] = 100
    /\ ret.nums[3] = 0
    /\ \E i \in DOMAIN call.d.pagos : _parse_date(call.d.pagos[i].fecha_pago_real) = NoDate

\* the totals of the override rows of (year, month)
ExpenseOverrides(d, year, month) ==
    SumOf([i \in {j \in DOMAIN d.gastos_mensuales :
                     /\ d.gastos_mensuales[j].year = year
                     /\ d.gastos_mensuales[j].month = month} |->
             d.gastos_mensuales[i].monto_presupuestado])

IncomeOverrides(d, year, month) ==
    SumOf([i \in {j \in DOMAIN d.ingresos_mensuales :
                     /\ d.ingresos_mensuales[j].year = year
                     /\ d.ingresos_mensuales[j].month = month} |->
             d.ingresos_mensuales[i].monto])

\* C19: the projection for the rest of the year is the start balance plus the
\* sum, over the months from the current one to December, of the income
\* overrides of the month minus the expense overrides of the month, of that
\* year; with a start of 100, an income of 50 and an expense of 30 in each of
\* the months 6..12 it is 240 (amounts in tenths below).
C19_RemainingYearProjection ==
    call.fn = "balance" =>
        /\ ret.nums[2] = call.saldo_input
                         + SumOf([m \in call.month..12 |->
                                    IncomeOverrides(call.d, call.year, m)
                                    - ExpenseOverrides(call.d, call.year, m)])
        /\ (/\ call.saldo_input = 1000
            /\ call.month = 6
            /\ \A m \in 6..12 : /\ IncomeOverrides(call.d, call.year, m) = 500
                                 /\ ExpenseOverrides(call.d, call.year, m) = 300)
           => ret.nums[2] = 2400

\* Balance was opened in June with a balance of 100 on the dataset with 50 of
\* income and 30 of expense in each month from June to December
C19_Witness ==
    /\ call.fn = "balance"
    /\ call.saldo_input = 1000
    /\ call.year = 2024 /\ call.month = 6
    /\ call.d.gastos_mensuales = FnDataJuneToDecember.gastos_mensuales
    /\ call.d.ingresos_mensuales = FnDataJuneToDecember.ingresos_mensuales
    /\ ret.nums[1] = 1400
    /\ ret.nums[2] = 2400

\* C20: the two projections of Balance do not depend on the payments: on the
\* same items, overrides and start balance, every other payments table gives
\* the same projection for the rest of the year and for the next year.
C20_ProjectionIgnoresPayments ==
    call.fn = "balance" =>
        \A pagos_df \in FnPagosFor(call.d) :
            LET other == [call.d EXCEPT !.pagos = pagos_df]
            IN /\ saldo_proyectado(other, call.saldo_input, call.year, call.month) = ret.nums[2]
               /\ balance_next_year(other, call.year + 1) = ret.nums[3]

\* Balance was opened in December 2024 on a dataset with a payment in that
\* month of an expense budgeted in it, and in January 2025 income and expense
C20_Witness ==
    /\ call.fn = "balance"
    /\ call.year = 2024 /\ call.month = 12
    /\ \E i \in DOMAIN call.d.pagos :
          /\ _parse_date(call.d.pagos[i].fecha_pago_real) = <<2024, 12, 5>>
          /\ AmountFor(call.d, call.d.pagos[i].gasto_id, 2024, 12) > 0
    /\ ret.nums[2] = call.saldo_input + 500 - 70
    /\ ret.nums[3] = 500 - 305

\* C21: the projection for the whole next year is the start balance plus the
\* sum, over the months 1..12 of the year after the current one, of the
\* income overrides of the month minus the expense overrides of the month.
C21_NextYearProjection ==
    call.fn = "balance" =>
        ret.nums[3] = call.saldo_input
                      + SumOf([m \in 1..12 |->
                                 IncomeOverrides(call.d, call.year + 1, m)
                                 - ExpenseOverrides(call.d, call.year + 1, m)])

\* the position of the expense in the expenses table
GastoPos(d, gasto_id) == CHOOSE i \in DOMAIN d.gastos : d.gastos[i].gasto_id = gasto_id

\* (categoria, nombre) of a before that of b, or equal to it
CatNameBefore(a, b) ==
    \/ StrRank(a.categoria) < StrRank(b.categoria)
    \/ a.categoria = b.categoria /\ StrRank(a.nombre) < StrRank(b.nombre)
CatNameEqual(a, b) == a.categoria = b.categoria /\ a.nombre = b.nombre

\* C22: the pending expenses of (year, month) are exactly the expenses whose
\* amount for the month is not zero and that have no payment in the month,
\* each once and with the amount of the month as its budgeted amount, in
\* the order of (categoria, nombre), equal ones in the order of the table.
C22_PendingItems ==
    call.fn = "gastos_pendientes" =>
        LET d == call.d
            due == {i \in DOMAIN d.gastos :
                       /\ AmountFor(d, d.gastos[i].gasto_id, call.year, call.month) # 0
                       /\ \A k \in PagosIn(d.pagos, call.year, call.month) :
                              d.pagos[k].gasto_id # d.gastos[i].gasto_id}
        IN /\ Len(ret.df) = Cardinality(due)
           /\ {ret.df[k].gasto_id : k \in DOMAIN ret.df} = {d.gastos[i].gasto_id : i \in due}
           /\ \A k \in DOMAIN ret.df :
                 /\ ret.df[k].monto_presupuestado
                      = AmountFor(d, ret.df[k].gasto_id, call.year, call.month)
                 /\ ret.df[k].nombre = d.gastos[GastoPos(d, ret.df[k].gasto_id)].nombre
                 /\ ret.df[k].categoria = d.gastos[GastoPos(d, ret.df[k].gasto_id)].categoria
           /\ \A k, l \in DOMAIN ret.df :
                 k < l => \/ CatNameBefore(ret.df[k], ret.df[l])
                          \/ /\ CatNameEqual(ret.df[k], ret.df[l])
                             /\ GastoPos(d, ret.df[k].gasto_id) < GastoPos(d, ret.df[l].gasto_id)

\* three expenses are pending in December 2024: the one of Automovil comes
\* first, the two called luz follow in the order of the table
C22_Witness ==
    /\ call.fn = "gastos_pendientes"
    /\ call.year = 2024 /\ call.month = 12
    /\ call.d.pagos # <<>>
    /\ Len(ret.df) = 3
    /\ ret.df[1].gasto_id = 2 /\ ret.df[2].gasto_id = 1 /\ ret.df[3].gasto_id = 3
    /\ ret.df[3].monto_presupuestado = 40

\* the rows of a table whose gasto_id is not among the ids, in their order
RowsNotOf(table, ids) ==
    LET keep == {i \in DOMAIN table : table[i].gasto_id \notin ids}
        order == SeqOfSet(keep)
    IN [k \in 1..Cardinality(keep) |-> table[order[k]]]

StoredPagosKept ==
    \A i \in DOMAIN file.pagos :
        \/ \E k \in DOMAIN file'.pagos : file'.pagos[k] = file.pagos[i]
        \/ /\ pc = "run"
           /\ ui'.op = "eliminar"
           /\ \A j \in DOMAIN file'.gastos : file'.gastos[j].gasto_id # file.pagos[i].gasto_id

\* C24: once a payment is saved, no later page interaction other than the
\* deletion of its expense removes or alters it in the workbook: registering
\* expenses, incomes or other payments, saving the amounts of a year, the
\* balance or the comment, and the save of the migration all keep it.
C24_SavedPaymentsAreKept == [][StoredPagosKept]_vars

\* the committed result of save_data(d, uid) on a store
Committed(store, d, uid) ==
    LET Run(w, stage) == SaveStage(w, d, uid, stage).work
    IN Run(Run(Run(Run(Run(Run(Run(Run(store, "delete"), "gastos"), "ingresos"), "pagos"),
                       "cuenta"), "gastos_mensuales"), "ingresos_mensuales"), "comentarios")

SaveIsAllOrNothing ==
    /\ (~TxFree /\ tx'.error # "") =>
          /\ tx'.pc = "done"
          /\ db' = db
          /\ file' = file
    /\ db' # db =>
          /\ tx.kind = "neon" /\ tx.pc = "commit" /\ tx'.error = ""
          /\ db' = Committed(db, tx.d, tx.uid)
    /\ file' # file =>
          /\ tx.kind = "excel" /\ tx.pc = "replace" /\ tx'.error = ""
          /\ \A sheet \in DOMAIN EmptyData : file'[sheet] = tx.d[sheet]

\* C25: when a save fails at any step, after some statements of save_data
\* or while _save_data writes its temporary workbook, the persisted dataset
\* is the one before the call and the caller gets the error; the persisted
\* dataset changes only at the commit, to the result of all the statements,
\* or at the replacement of the workbook, to all the sheets of the dataset.
C25_FailedSaveChangesNothing == [][SaveIsAllOrNothing]_vars

\* save_data failed after it had deleted and inserted rows of a user who had
\* rows in the store, and _save_data failed with sheets written
C25_Witness ==
    /\ tx.pc = "done"
    /\ tx.kind = "neon"
    /\ tx.error = "OperationalError"
    /\ tx.work # db
    /\ tx.work.gastos # <<>>
    /\ load_data(db, tx.uid).gastos # <<>>
    /\ load_data(db, tx.uid) # tx.d

SaveOfLoadedData ==
    (tx.kind = "neon" /\ tx.roundtrip /\ ~TxFree) =>
        /\ tx'.error \in {"", "OperationalError"}
        /\ tx.pc = "commit" =>
              /\ load_data(db', tx.uid) = tx.d
              /\ \A table \in DOMAIN EmptyData : load_data(db', tx.uid)[table] = tx.d[table]

\* C26: for d = load_data(u), save_data(d, u) followed by load_data(u)
\* returns d in every table, with the same ids, amounts and dates, when
\* nothing else changes the store in between; the statements of such a save
\* raise no error of their own.
C26_SaveLoadRoundTrip == [][SaveOfLoadedData]_vars

\* the dataset of user 1 (expense, payment, monthly rows, income, balance,
\* comment) was loaded, saved and is loaded again as it was, in a store that
\* also holds the rows of user 2
C26_Witness ==
    /\ tx.pc = "done"
    /\ tx.kind = "neon"
    /\ tx.roundtrip
    /\ tx.error = ""
    /\ tx.uid = 1
    /\ tx.d = DbDataOne
    /\ load_data(db, 1) = DbDataOne
    /\ load_data(db, 2).gastos # <<>>


\* a run's load: the dataset _load_data hands to the run is the one in the
\* workbook, which the last successful _save_data wrote
LoadReturnsSaved ==
    (pc = "idle" /\ pc' = "run") => cache'[1] = _read_data_file(file)

\* C27: read-your-writes across page interactions: after a mutation was saved
\* with _save_data, the next interaction's _load_data returns the dataset that
\* was saved, so that no interaction works on a dataset older than the last
\* successful save
C27_ReadYourWrites == [][LoadReturnsSaved]_vars


\* the periods the pages can show
OtherPeriods(year, month) ==
    {p \in (2023..2026) \X (1..12) : p # <<year, month>>}

PaymentFiledUnderPeriod ==
    (pc = "run" /\ ui'.op = "guardar_pagos" /\ Len(data'.pagos) > Len(data.pagos))
    => \A k \in (Len(data.pagos) + 1)..Len(data'.pagos) :
          LET pago == data'.pagos[k]
              gasto_id == pago.gasto_id
          IN /\ ~_paid_in_month(data.pagos, gasto_id, ui'.year, ui'.month)
             /\ _paid_in_month(data'.pagos, gasto_id, ui'.year, ui'.month)
             /\ _get_pago_for_month(data'.pagos, gasto_id, ui'.year, ui'.month) = <<pago>>
             /\ \A i \in DOMAIN gastos_pendientes(data', ui'.year, ui'.month) :
                   gastos_pendientes(data', ui'.year, ui'.month)[i].gasto_id # gasto_id
             /\ \A p \in OtherPeriods(ui'.year, ui'.month) :
                   _paid_in_month(data'.pagos, gasto_id, p[1], p[2])
                     = _paid_in_month(data.pagos, gasto_id, p[1], p[2])
             /\ file'.pagos = data'.pagos

AppendedIds(old_rows, new_rows, col) ==
    [k \in 1..(Len(new_rows) - Len(old_rows)) |-> new_rows[Len(old_rows) + k][col]]

\* the ids are 1, or the greatest id of the table plus 1, and then consecutive
FollowOn(table_ids, new_ids) ==
    \A k \in DOMAIN new_ids :
        new_ids[k] = (IF table_ids = <<>> THEN 1 ELSE Max(Range(table_ids)) + 1) + (k - 1)

PairwiseDistinct(ids) == \A i, j \in DOMAIN ids : i # j => ids[i] # ids[j]

\* the registrations reckoned against the table stored in the workbook
NewIdsFollowStored ==
    (pc = "run" /\ ui'.op \in {"registrar_gasto", "registrar_ingreso", "guardar_pagos"})
    => /\ ui'.op = "registrar_gasto" =>
             FollowOn(IdColumn(file.gastos, "gasto_id"),
                      AppendedIds(data.gastos, data'.gastos, "gasto_id"))
       /\ ui'.op = "registrar_ingreso" =>
             FollowOn(IdColumn(file.ingresos, "ingreso_id"),
                      AppendedIds(data.ingresos, data'.ingresos, "ingreso_id"))
       /\ ui'.op = "guardar_pagos" =>
             FollowOn(IdColumn(file.pagos, "pago_id"),
                      AppendedIds(data.pagos, data'.pagos, "pago_id"))

StoredIdsDistinct ==
    /\ PairwiseDistinct(IdColumn(file.gastos, "gasto_id"))
    /\ PairwiseDistinct(IdColumn(file.ingresos, "ingreso_id"))
    /\ PairwiseDistinct(IdColumn(file.pagos, "pago_id"))

\* C29: a registered payment, expense or income gets the id 1 when its table
\* is empty and otherwise the greatest id of the table plus 1, the payments of
\* one batch get consecutive ids; so after any sequence of registrations and
\* deletions the ids stored in each table are pairwise distinct and a new id
\* is greater than every id stored in its table at that moment.
C29_NewIdAboveStoredIds ==
    [][NewIdsFollowStored /\ StoredIdsDistinct /\ StoredIdsDistinct']_vars

\* the expense ids of the session's dataset belong to no other user
ScopedIdsAreFree ==
    \A i \in DOMAIN sess.d.gastos :
        \A uid \in DbUsers \ {sess.uid} :
            sess.d.gastos[i].gasto_id \notin OwnGastoIds(db, uid)

\* no statement of save_data runs into a key that is in the table
NoKeyConflict == (tx.kind = "neon" /\ ~TxFree) => tx'.error # "UniqueViolation"

\* what load_data returns to the other users is the same after the step
OtherUsersUntouched ==
    \A uid \in DbUsers \ {tx.uid} : load_data(db', uid) = load_data(db, uid)

\* C30: with several users in one store, an expense id assigned at
\* registration from a user's own dataset (the greatest id of that user's
\* expenses plus 1) is never an id of an expense of another user, so that
\* save_data inserts the user's expenses without a primary-key conflict and
\* commits; and a user's save leaves what every other user has stored
\* unchanged.
C30_ScopedIdsNeverCollide ==
    [][ScopedIdsAreFree' /\ NoKeyConflict /\ OtherUsersUntouched]_vars

====
